---- MODULE Spec2Model ----
(***************************************************************************)
(* Region-algebra compiler of let-lag-mobile: the SdfCompiler instruction  *)
(* builder, the ShapeShader code generator with its structural hash, the   *)
(* ShaderCache, the CompiledShape argument binder and the render thread    *)
(* that owns the cache.                                                    *)
(***************************************************************************)
EXTENDS Integers, Sequences, FiniteSets, TLC

(***************************************************************************)
(* Bounds of the model.                                                    *)
(***************************************************************************)
MaxInstr == 3       \* longest instruction list built call by call
NumPositions == 2   \* distinct coordinates offered to the builders
MaxPoints == 2      \* longest enumerated point-only shape
LongExtra == 1      \* point-only shapes of U8Range .. U8Range + LongExtra instructions
MaxRequests == 2    \* messages sent to the render thread
NumKeys == 2        \* distinct SipHash keys RandomState::new() may draw
HashBits == 4       \* width of the modelled structural hash (u64 in the code)
MaxTileZoom == 3    \* deepest zoom of the quadtree walk
NumLayerTiles == 2  \* tiles the out-of-bounds layer gets to render
MaxLayerSends == 4  \* messages the layer may send before the model stops it
NumDays == 8        \* dates offered to the service calendar, from a Monday on

(***************************************************************************)
(* Program constants.                                                      *)
(***************************************************************************)
COORD_SCALE == 10000000
U8Range == 256
I32Max == 2147483647
F32Significand == 24

NoReg == 0 - 1

(***************************************************************************)
(* geo::Point.  A coordinate is the exact value d + f / (2 * COORD_SCALE)  *)
(* degrees, written <<d, f>> with d an integer and 0 <= f < 2*COORD_SCALE; *)
(* a position is <<xd, xf, yd, yf>>.  Every listed position is inside the  *)
(* natural range of longitude and latitude.                                *)
(***************************************************************************)
PositionTable ==
    << <<180, 0, 0 - 90, 0>>,
       <<0 - 1, 17530867, 0, 11>>,
       <<0, 0, 0 - 1, 19999997>>,
       <<0, 1026, 0 - 1, 19868928>> >>

Positions == { PositionTable[i] : i \in 1..NumPositions }

Radii == {500}
Bearings == {90}

(***************************************************************************)
(* SdfInstruction: opcode, output register, the registers it reads and the *)
(* payload constants (each a tuple of integers).                           *)
(***************************************************************************)
SdfInstruction(op, output, regs, payload) ==
    [op |-> op, output |-> output, regs |-> regs, payload |-> payload]

Inside == 1
Outside == 2
Midpoint == 3
BoundaryOverlapResolution == {Inside, Outside, Midpoint}

(***************************************************************************)
(* SdfCompiler.  A compiler value carries the instruction list, the next   *)
(* register and, in ret, the register returned by the latest call.         *)
(***************************************************************************)
SdfCompiler_new == [instructions |-> <<>>, next_register |-> 0, ret |-> NoReg]

allocate_register_stuck(c) == [reg |-> c.next_register, next |-> c.next_register]

allocate_register(c) == [reg |-> c.next_register, next |-> c.next_register + 1]

push(c, op, regs, payload) ==
    LET a == allocate_register(c)
    IN  [instructions |-> Append(c.instructions, SdfInstruction(op, a.reg, regs, payload)),
         next_register |-> a.next,
         ret |-> a.reg]

point(c, position) == push(c, "Point", <<>>, <<position>>)

point_cloud(c, points) == push(c, "PointCloud", <<>>, points)

great_circle(c, pt, bearing, interior_point) ==
    push(c, "GreatCircle", <<>>, <<pt, <<bearing>>, interior_point>>)

geodesic(c, start, end) == push(c, "Geodesic", <<>>, <<start, end>>)

geodesic_string(c, points) == push(c, "GeodesicString", <<>>, points)

union(c, shapes) == push(c, "Union", shapes, <<>>)

intersection(c, left, right) == push(c, "Intersection", <<left, right>>, <<>>)

subtract(c, left, right) == push(c, "Subtract", <<left, right>>, <<>>)

invert(c, input) == push(c, "Invert", <<input>>, <<>>)

dilate_returns_input(c, input, amount) ==
    [push(c, "Dilate", <<input>>, << <<amount>> >>) EXCEPT !.ret = input]

dilate(c, input, amount) == push(c, "Dilate", <<input>>, << <<amount>> >>)

edge(c, input) == push(c, "Edge", <<input>>, <<>>)

boundary(c, inside, outside, overlap_resolution) ==
    push(c, "Boundary", <<inside, outside>>, << <<overlap_resolution>> >>)

with_vdg(c, diagram) == push(c, "LoadVdg", <<>>, << <<diagram>> >>)

with_contour_texture(c, texture, zero_value) ==
    push(c, "Contour", <<>>, << <<texture>>, <<zero_value>> >>)

(***************************************************************************)
(* Shapes.  A shape is what its build_into does to a compiler.             *)
(*   Points : calls point once per position and returns register number    *)
(*            param of the ones it produced (0-based);                     *)
(*   Circle : builtin::circle::Circle;                                     *)
(*   Radar  : hide_and_seek::question::radar::RadarQuestionShape.          *)
(***************************************************************************)
Shape(kind, positions, param, answer) ==
    [kind |-> kind, positions |-> positions, param |-> param, answer |-> answer]

NoShape == Shape("None", <<>>, 0, "None")

\* F applied to the value of v, with v evaluated once and before F.
Then(v, F(_)) == CHOOSE r \in { F(x) : x \in {v} } : TRUE

\* for i in lo .. hi - 1, in ascending order: st = Body(i, st).  The range is
\* halved so that the evaluation depth stays logarithmic.
RECURSIVE ForRange(_, _, _, _)
ForRange(Body(_, _), lo, hi, st) ==
    IF hi <= lo THEN st
    ELSE IF hi = lo + 1 THEN Body(lo, st)
    ELSE LET mid == (lo + hi) \div 2
             Rest(first) == ForRange(Body, mid, hi, first)
         IN  Then(ForRange(Body, lo, mid, st), Rest)

BuildPoints(c, positions) ==
    LET Body(i, st) == point(st, positions[i + 1])
    IN  ForRange(Body, 0, Len(positions), c)

Points_build_into(shape, c) ==
    [BuildPoints(c, shape.positions) EXCEPT !.ret = c.next_register + shape.param]

Circle_build_into(shape, c) ==
    LET p == point(c, shape.positions[1])
        dilated == dilate(p, p.ret, shape.param)
    IN  dilated

RECURSIVE build_into(_, _)

with_returns_first(shape, c) ==
    [build_into(shape, c) EXCEPT !.ret = c.next_register]

with(shape, c) == build_into(shape, c)

Radar_build_into(shape, c) ==
    LET result == with(Shape("Circle", shape.positions, shape.param, "None"), c)
    IN  IF shape.answer = "Hit" THEN result ELSE invert(result, result.ret)

\* A shape that hands its candidate positions to point_cloud and returns the
\* cloud's register; the candidate list may have been filtered down to none.
PointCloud_build_into(shape, c) == point_cloud(c, shape.positions)

\* A shape that builds one point per candidate and returns their union.
Union_build_into(shape, c) ==
    LET built == BuildPoints(c, shape.positions)
    IN  union(built, [i \in 1 .. Len(shape.positions) |-> c.next_register + i - 1])

\* A shape resolving the overlap of two circles around the same centre, the
\* policy taken from the shape's answer.
Boundary_build_into(shape, c) ==
    LET circle == Shape("Circle", shape.positions, shape.param, "None")
        inside == with(circle, c)
        outside == with(circle, inside)
    IN  boundary(outside, inside.ret, outside.ret,
                 IF shape.answer = "Inside" THEN Inside ELSE Outside)

build_into(shape, c) ==
    CASE shape.kind = "Points" -> Points_build_into(shape, c)
      [] shape.kind = "Circle" -> Circle_build_into(shape, c)
      [] shape.kind = "Radar"  -> Radar_build_into(shape, c)
      [] shape.kind = "PointCloud" -> PointCloud_build_into(shape, c)
      [] shape.kind = "Union" -> Union_build_into(shape, c)
      [] shape.kind = "Boundary" -> Boundary_build_into(shape, c)

finish(c) == c.instructions

(***************************************************************************)
(* ShaderSlot and its ordering; both fields are u8.                        *)
(***************************************************************************)
ShaderSlot(instruction_index, instruction_key) ==
    <<instruction_index % U8Range, instruction_key % U8Range>>

ShaderSlot_lt(a, b) == a[1] < b[1] \/ (a[1] = b[1] /\ a[2] < b[2])

ShaderArgument(offset, length) == [offset |-> offset, length |-> length]

(***************************************************************************)
(* The structural hash.  RandomState::new() draws the SipHash key, so the  *)
(* key of a compilation is any element of Keys.  The hasher is a keyed     *)
(* mixing function of HashBits bits: for fixed content two different keys  *)
(* give different hashes, and different contents may collide.              *)
(***************************************************************************)
HashMod == 2 ^ HashBits

Keys == 0 .. (NumKeys - 1)

build_hasher(key) == key % HashMod

hash_write(hasher, value) == (hasher * 5 + value + 1) % HashMod

Discriminant(op) ==
    CASE op = "Point" -> 0
      [] op = "PointCloud" -> 1
      [] op = "GreatCircle" -> 2
      [] op = "Geodesic" -> 3
      [] op = "GeodesicString" -> 4
      [] op = "Union" -> 5
      [] op = "Intersection" -> 6
      [] op = "Subtract" -> 7
      [] op = "Invert" -> 8
      [] op = "Dilate" -> 9
      [] op = "Edge" -> 10
      [] op = "Boundary" -> 11
      [] op = "Contour" -> 12
      [] op = "LoadVdg" -> 13

(***************************************************************************)
(* routine::point::compile_point: appends one local variable              *)
(* "i<index>__point_distance" to the compute function and reports one      *)
(* argument slot.  A local variable handle is its position in the arena.   *)
(***************************************************************************)
compile_point(locals, index) ==
    [argument_len |-> 1, variable |-> Len(locals), locals |-> Append(locals, index)]

(***************************************************************************)
(* ShaderCache::get_or_create.  A device module is [id, source]: id counts *)
(* the calls of device.create_shader_module, source is the naga module.    *)
(***************************************************************************)
ShaderCache_new == <<>>

\* HashMap::insert: the new value replaces an earlier one under the same key
Insert(map, k, v) == (k :> v) @@ map

\* device.create_shader_module.  No error scope is pushed and no handler for
\* uncaptured errors is installed, so a module the device rejects ends in the
\* panic of wgpu's default handler, inside the call.
create_shader_module(created, module, device_ok) ==
    IF device_ok
    THEN [panic |-> FALSE, created |-> created + 1,
          module |-> [id |-> created + 1, source |-> module]]
    ELSE [panic |-> TRUE, created |-> created]

get_or_create_always_creates(cache, created, hash, module, device_ok) ==
    LET made == create_shader_module(created, module, device_ok)
    IN  IF made.panic
        THEN [panic |-> TRUE, cache |-> cache, created |-> created]
        ELSE [panic |-> FALSE,
              cache |-> Insert(cache, hash, made.module),
              created |-> made.created,
              module |-> made.module]

\* the error is reported to a handler that returns, and the rejected module
\* (id 0) is stored and returned like any other
get_or_create_keeps_rejected(cache, created, hash, module, device_ok) ==
    IF hash \in DOMAIN cache
    THEN [panic |-> FALSE, cache |-> cache, created |-> created, module |-> cache[hash]]
    ELSE LET made == create_shader_module(created, module, device_ok)
             shader_module == IF made.panic THEN [id |-> 0, source |-> module] ELSE made.module
         IN  [panic |-> FALSE,
              cache |-> Insert(cache, hash, shader_module),
              created |-> made.created,
              module |-> shader_module]

get_or_create(cache, created, hash, module, device_ok) ==
    IF hash \in DOMAIN cache
    THEN [panic |-> FALSE, cache |-> cache, created |-> created, module |-> cache[hash]]
    ELSE LET made == create_shader_module(created, module, device_ok)
         IN  IF made.panic
             THEN [panic |-> TRUE, cache |-> cache, created |-> created]
             ELSE [panic |-> FALSE,
                   cache |-> Insert(cache, hash, made.module),
                   created |-> made.created,
                   module |-> made.module]

(***************************************************************************)
(* ShapeShader::compile.  The loop state is the hasher, the required slot  *)
(* list, the register -> local variable map and the locals of the compute  *)
(* function; panic is set by unimplemented!() and by the expect on the     *)
(* result register.                                                        *)
(***************************************************************************)
CompileStep(instructions, index, st) ==
    IF st.panic THEN st
    ELSE LET instruction == instructions[index + 1]
             h1 == hash_write(st.hasher, Discriminant(instruction.op))
         IN  IF instruction.op # "Point"
             THEN [st EXCEPT !.panic = TRUE, !.hasher = h1]
             ELSE LET output == instruction.output
                      h2 == hash_write(h1, output)
                      r == compile_point(st.locals, index)
                      slots == [i \in 1 .. r.argument_len |-> ShaderSlot(index, i - 1)]
                  IN  [panic |-> FALSE,
                       hasher |-> h2,
                       required_slots |-> st.required_slots \o slots,
                       registers |-> Insert(st.registers, output, r.variable),
                       locals |-> r.locals]

\* the module is installed before the result register is looked up
ShapeShader_finish_installs_first(cache, created, result, st, device_ok) ==
    IF st.panic
    THEN [panic |-> TRUE, cache |-> cache, created |-> created]
    ELSE LET module == [locals |-> st.locals,
                        result |-> IF result \in DOMAIN st.registers
                                   THEN st.registers[result] ELSE NoReg]
             hash == st.hasher
             Built(got) ==
                 IF got.panic
                 THEN [panic |-> TRUE, cache |-> got.cache, created |-> got.created]
                 ELSE [panic |-> result \notin DOMAIN st.registers,
                       cache |-> got.cache, created |-> got.created,
                       shader |-> [hash |-> hash, module |-> got.module,
                                   required_slots |-> st.required_slots],
                       generated |-> module]
         IN  Then(get_or_create(cache, created, hash, module, device_ok), Built)

ShapeShader_finish(cache, created, result, st, device_ok) ==
    IF st.panic \/ result \notin DOMAIN st.registers
    THEN [panic |-> TRUE, cache |-> cache, created |-> created]
    ELSE LET module == [locals |-> st.locals, result |-> st.registers[result]]
             hash == st.hasher
             Built(got) ==
                 IF got.panic
                 THEN [panic |-> TRUE, cache |-> got.cache, created |-> got.created]
                 ELSE [panic |-> FALSE, cache |-> got.cache, created |-> got.created,
                       shader |-> [hash |-> hash, module |-> got.module,
                                   required_slots |-> st.required_slots],
                       generated |-> module]
         IN  Then(get_or_create(cache, created, hash, module, device_ok), Built)

ShapeShader_compile(cache, created, instructions, result, key, device_ok) ==
    LET Body(index, s) == CompileStep(instructions, index, s)
        Finish(st) == ShapeShader_finish(cache, created, result, st, device_ok)
    IN  Then(ForRange(Body, 0, Len(instructions),
                 [panic |-> FALSE, hasher |-> build_hasher(key), required_slots |-> <<>>,
                  registers |-> <<>>, locals |-> <<>>]),
             Finish)

(***************************************************************************)
(* CompiledShape::compile: the binding loop (todo!() on any opcode but     *)
(* Point), the verification loop, and the whole function.  The returned    *)
(* shape also records, for the properties below, the instruction list, the *)
(* result register, the module its own list generated, the hash key drawn, *)
(* and how many messages were waiting behind the request.                  *)
(***************************************************************************)
BindStep(instructions, i, st) ==
    IF st.panic THEN st
    ELSE LET instruction == instructions[i + 1]
         IN  IF instruction.op # "Point"
             THEN [st EXCEPT !.panic = TRUE]
             ELSE [panic |-> FALSE,
                   arguments |-> Insert(st.arguments, ShaderSlot(i, 0), instruction.payload[1])]

BindArguments(instructions) ==
    LET Body(i, s) == BindStep(instructions, i, s)
    IN  ForRange(Body, 0, Len(instructions), [panic |-> FALSE, arguments |-> <<>>])

MissingArguments(required_slots, arguments) ==
    \E n \in 1 .. Len(required_slots) : required_slots[n] \notin DOMAIN arguments

CompiledShape(sh, arguments, instructions, target, key, behind) ==
    [panic |-> FALSE, cache |-> sh.cache, created |-> sh.created,
     shape |-> [shader |-> sh.shader,
                arguments |-> arguments,
                instructions |-> instructions,
                target |-> target,
                generated |-> sh.generated,
                key |-> key,
                behind |-> behind]]

\* lines 32-60, after ShapeShader::compile has returned sh
BindAndVerify(sh, built, key, behind) ==
    IF sh.panic THEN [panic |-> TRUE, cache |-> sh.cache, created |-> sh.created]
    ELSE LET Verify(bound) ==
                 IF bound.panic \/ MissingArguments(sh.shader.required_slots, bound.arguments)
                 THEN [panic |-> TRUE, cache |-> sh.cache, created |-> sh.created]
                 ELSE CompiledShape(sh, bound.arguments, finish(built), built.ret, key, behind)
         IN  Then(BindArguments(finish(built)), Verify)

\* a binding loop that starts at the second instruction, and no verification
BindUnverified(sh, built, key, behind) ==
    IF sh.panic THEN [panic |-> TRUE, cache |-> sh.cache, created |-> sh.created]
    ELSE CompiledShape(sh,
             [s \in {ShaderSlot(i, 0) : i \in 1 .. Len(finish(built)) - 1}
                 |-> finish(built)[s[1] + 1].payload[1]],
             finish(built), built.ret, key, behind)

CompiledShape_compile_unverified(cache, created, shape, key, behind, device_ok) ==
    LET Compile(built) ==
            LET Bind(sh) == BindUnverified(sh, built, key, behind)
            IN  Then(ShapeShader_compile(cache, created, finish(built), built.ret, key,
                                         device_ok), Bind)
    IN  Then(build_into(shape, SdfCompiler_new), Compile)

CompiledShape_compile(cache, created, shape, key, behind, device_ok) ==
    LET Compile(built) ==
            LET Bind(sh) == BindAndVerify(sh, built, key, behind)
            IN  Then(ShapeShader_compile(cache, created, finish(built), built.ret, key,
                                         device_ok), Bind)
    IN  Then(build_into(shape, SdfCompiler_new), Compile)

(***************************************************************************)
(* IntoShaderArgument for geo::Point.                                      *)
(***************************************************************************)
\* (c * COORD_SCALE as f64).round() for the coordinate c = d + f / (2 * COORD_SCALE):
\* the product is k + h/2, and f64::round rounds half away from zero.
ScaleRound(d, f) ==
    LET k == d * COORD_SCALE + f \div 2
        h == f % 2
    IN  IF h = 0 THEN k ELSE IF k >= 0 THEN k + 1 ELSE k

\* `as i32` saturates.
as_i32(v) == IF v > I32Max THEN I32Max ELSE IF v < (0 - I32Max) - 1 THEN (0 - I32Max) - 1 ELSE v

\* i32::to_le_bytes: two's complement, least significant byte first.
to_le_bytes(v) ==
    LET w == IF v < 0 THEN (v + I32Max) + 1 ELSE v
        top == IF v < 0 THEN 128 ELSE 0
    IN  << w % 256, (w \div 256) % 256, (w \div 65536) % 256, (w \div 16777216) + top >>

into_shader_argument(position, buffer) ==
    LET x == as_i32(ScaleRound(position[1], position[2]))
        y == as_i32(ScaleRound(position[3], position[4]))
        offset == Len(buffer)
    IN  [buffer |-> buffer \o to_le_bytes(x) \o to_le_bytes(y),
         arguments |-> << ShaderArgument(offset, 1), ShaderArgument(offset + 8, 1) >>]

(***************************************************************************)
(* CompiledShape::fill_arguments.                                          *)
(***************************************************************************)
FillStep(cs, n, st) ==
    IF st.panic THEN st
    ELSE LET slot == cs.shader.required_slots[n + 1]
         IN  IF slot \notin DOMAIN cs.arguments
             THEN [st EXCEPT !.panic = TRUE]
             ELSE LET r == into_shader_argument(cs.arguments[slot], st.buffer)
                  IN  [panic |-> FALSE,
                       buffer |-> r.buffer,
                       shader_arguments |-> st.shader_arguments \o r.arguments]

fill_arguments(cs, buffer) ==
    LET Body(n, s) == FillStep(cs, n, s)
    IN  ForRange(Body, 0, Len(cs.shader.required_slots),
                 [panic |-> FALSE, buffer |-> buffer, shader_arguments |-> <<>>])

(***************************************************************************)
(* map::Tile.  The f64 fields x0, y0, x1, y1 of a tile of zoom z are       *)
(* multiples of 1 / 2^z, which f64 holds exactly; the model stores their   *)
(* numerators over 2^z.                                                    *)
(***************************************************************************)
Tile(zoom, tile_x, tile_y, x0, y0, x1, y1) ==
    [zoom |-> zoom, tile_x |-> tile_x, tile_y |-> tile_y,
     x0 |-> x0, y0 |-> y0, x1 |-> x1, y1 |-> y1]

WORLD == Tile(0, 0, 0, 0, 0, 1, 1)

\* over 2^(zoom + 1) the parent's x0 is 2 * x0 and the midpoint (x0 + x1) / 2 is x0 + x1
children(self) ==
    LET new_tile_x == self.tile_x * 2
        new_tile_y == self.tile_y * 2
        mx == self.x0 + self.x1
        my == self.y0 + self.y1
        x0 == 2 * self.x0
        y0 == 2 * self.y0
        x1 == 2 * self.x1
        y1 == 2 * self.y1
    IN  << Tile(self.zoom + 1, new_tile_x, new_tile_y + 1, x0, my, mx, y1),
           Tile(self.zoom + 1, new_tile_x + 1, new_tile_y + 1, mx, my, x1, y1),
           Tile(self.zoom + 1, new_tile_x + 1, new_tile_y, mx, y0, x1, my),
           Tile(self.zoom + 1, new_tile_x, new_tile_y, x0, y0, mx, my) >>

Abs(v) == IF v < 0 THEN 0 - v ELSE v

\* the number of low bits an integer loses when it is cut to F32Significand bits
RECURSIVE ExcessBits(_)
ExcessBits(a) == IF a < 2 ^ F32Significand THEN 0 ELSE 1 + ExcessBits(a \div 2)

\* `as f32` of the value m / 2^z: the numerator rounded to F32Significand
\* significant bits, ties to even
as_f32(m) ==
    LET a == Abs(m)
        k == ExcessBits(a)
        q == a \div (2 ^ k)
        r == a % (2 ^ k)
        up == k > 0 /\ (2 * r > 2 ^ k \/ (2 * r = 2 ^ k /\ q % 2 = 1))
        rounded == (IF up THEN q + 1 ELSE q) * (2 ^ k)
    IN  IF m < 0 THEN 0 - rounded ELSE rounded

\* (COORD_SCALE as f64 * (m / 2^z)) as i32: the product is exact in f64; the
\* cast drops the fraction and saturates.  ip and q are the product's
\* hundreds-of-millions part and the rest, so that no intermediate value
\* leaves 32 bits.
scaled_as_i32(m, z) ==
    LET a == Abs(m)
        ip == a \div (2 ^ z)
        fr == a % (2 ^ z)
        s == IF z < 7 THEN z ELSE 7
        q == (fr * (COORD_SCALE \div (2 ^ s))) \div (2 ^ (z - s))
        top == I32Max \div COORD_SCALE
        rest == I32Max % COORD_SCALE
    IN  IF m >= 0
        THEN IF ip > top \/ (ip = top /\ q > rest) THEN I32Max ELSE ip * COORD_SCALE + q
        ELSE IF ip > top \/ (ip = top /\ q > rest) THEN (0 - I32Max) - 1
             ELSE 0 - (ip * COORD_SCALE + q)

\* Tile::into_bounds, the two longitude fields.  x * 360.0 - 180.0 for
\* x = n / 2^z is (360 * n - 180 * 2^z) / 2^z.  The latitude fields go
\* through sinh and atan and are left out.
into_bounds(self) ==
    LET z == self.zoom
        min_lon_deg == as_f32(360 * self.x0 - 180 * (2 ^ z))
        max_lon_deg == as_f32(360 * self.x1 - 180 * (2 ^ z))
    IN  [min_lon_deg |-> scaled_as_i32(min_lon_deg, z),
         lon_span_deg |-> scaled_as_i32(as_f32(max_lon_deg - min_lon_deg), z)]

NoBounds == [min_lon_deg |-> 0, lon_span_deg |-> 0 - 1]

(***************************************************************************)
(* transit::models::calendar.  A NaiveDate is the number of days since     *)
(* Monday 2024-01-01; Weekday::number_from_monday is 1 for Monday up to 7  *)
(* for Sunday.                                                             *)
(***************************************************************************)
Weekdays == <<"Mon", "Tue", "Wed", "Thu", "Fri", "Sat", "Sun">>

number_from_monday(weekday) == CHOOSE n \in 1 .. 7 : Weekdays[n] = weekday

weekday(date) == Weekdays[(date % 7) + 1]

WeekdayFlags_new == 0

\* flags |= 1 << n
WeekdayFlags_set(flags, day) ==
    LET bit == 2 ^ number_from_monday(day)
    IN  IF (flags \div bit) % 2 = 1 THEN flags ELSE (flags + bit) % U8Range

\* (flags & (1 << n)) != 0
WeekdayFlags_contains(flags, day) ==
    (flags \div (2 ^ number_from_monday(day))) % 2 # 0

RECURSIVE SetDays(_, _, _)
SetDays(flags, bools, n) ==
    IF n > 7 THEN flags
    ELSE SetDays(IF bools[n] THEN WeekdayFlags_set(flags, Weekdays[n]) ELSE flags, bools, n + 1)

\* bools = <<mon, tue, wed, thu, fri, sat, sun>>
from_bools(bools) == SetDays(WeekdayFlags_new, bools, 1)

ServiceCalendar(start_date, end_date, weekdays, added_dates, removed_dates) ==
    [start_date |-> start_date, end_date |-> end_date, weekdays |-> weekdays,
     added_dates |-> added_dates, removed_dates |-> removed_dates]

\* removals are looked up before additions
runs_on_removals_first(self, date) ==
    IF date \in self.removed_dates THEN FALSE
    ELSE IF date \in self.added_dates THEN TRUE
    ELSE IF date < self.start_date \/ date > self.end_date THEN FALSE
    ELSE WeekdayFlags_contains(self.weekdays, weekday(date))

runs_on(self, date) ==
    IF date \in self.added_dates THEN TRUE
    ELSE IF date \in self.removed_dates THEN FALSE
    ELSE IF date < self.start_date \/ date > self.end_date THEN FALSE
    ELSE WeekdayFlags_contains(self.weekdays, weekday(date))

(***************************************************************************)
(* transit::models::types::StopEvent.  A u32 is held as the i32 with the   *)
(* same 32 bits, so that `as i32` and `as u32` keep the number as it is:   *)
(* the u32 values from 2^31 on are the negative numbers.                   *)
(***************************************************************************)
I32Min == (0 - I32Max) - 1

StopEvent(station_id, arrival, departure, stop_sequence) ==
    [station_id |-> station_id, arrival |-> arrival, departure |-> departure,
     stop_sequence |-> stop_sequence]

\* u32 comparison on the held bits
u32_lt(a, b) ==
    IF (a >= 0) = (b >= 0) THEN a < b ELSE a >= 0

add_overflows(a, d) ==
    \/ d > 0 /\ a > I32Max - d
    \/ d < 0 /\ a < I32Min - d

\* i32 addition of a build without overflow checks
wrapping_add(a, d) ==
    IF d > 0 /\ a > I32Max - d THEN (a + I32Min) + (d + I32Min)
    ELSE IF d < 0 /\ a < I32Min - d THEN ((a + I32Max) + 1) + ((d + I32Max) + 1)
    ELSE a + d

max0(v) == IF v < 0 THEN 0 ELSE v

Err == [kind |-> "Err"]

Panic == [kind |-> "Panic"]

Ok(value) == [kind |-> "Ok", value |-> value]

\* overflow_checks: the build panics on an overflowing `+` (debug) or wraps (release)
with_delay(self, delay_seconds, overflow_checks) ==
    IF overflow_checks /\ (\/ add_overflows(self.arrival, delay_seconds)
                           \/ add_overflows(self.departure, delay_seconds))
    THEN Panic
    ELSE LET new_arrival == max0(wrapping_add(self.arrival, delay_seconds))
             new_departure == max0(wrapping_add(self.departure, delay_seconds))
         IN  IF u32_lt(new_departure, new_arrival) THEN Err
             ELSE Ok([self EXCEPT !.arrival = new_arrival, !.departure = new_departure])

(***************************************************************************)
(* The future returned by Handler<RequestTile>: `state` is the State enum, *)
(* `done` the AtomicBool shared with the on_submitted_work_done callback,  *)
(* `work` what the GPU has made of the submitted commands, `output` the    *)
(* value the latest poll returned, `submits` the number of queue.submit    *)
(* calls the future has made.                                              *)
(***************************************************************************)
Impl(id, t) ==
    [id |-> id, tile |-> t, state |-> "ToSubmit", work |-> "None", done |-> FALSE,
     return_value |-> TRUE, output |-> "Pending", submits |-> 0]

\* the Waiting arm takes the return value before it looks at `done`
Impl_poll_takes_early(self) ==
    IF self.state = "ToSubmit"
    THEN [self EXCEPT !.state = "Waiting", !.work = "Running", !.output = "Pending",
                      !.submits = @ + 1]
    ELSE IF self.return_value
         THEN [self EXCEPT !.return_value = FALSE,
                           !.output = IF self.done THEN "Ready" ELSE "Pending"]
         ELSE [self EXCEPT !.output = "Pending"]

\* a poll that finds the work unfinished submits the commands again
Impl_poll_resubmits(self) ==
    IF self.state = "ToSubmit"
    THEN [self EXCEPT !.state = "Waiting", !.work = "Running", !.output = "Pending",
                      !.submits = @ + 1]
    ELSE IF self.return_value /\ self.done
         THEN [self EXCEPT !.return_value = FALSE, !.output = "Ready"]
         ELSE [self EXCEPT !.output = "Pending",
                           !.submits = IF self.submits < 2 THEN @ + 1 ELSE @]

\* ActorFuture::poll
Impl_poll(self) ==
    IF self.state = "ToSubmit"
    THEN [self EXCEPT !.state = "Waiting", !.work = "Running", !.output = "Pending",
                      !.submits = @ + 1]
    ELSE IF self.return_value /\ self.done
         THEN [self EXCEPT !.return_value = FALSE, !.output = "Ready"]
         ELSE [self EXCEPT !.output = "Pending"]

\* the closure given to on_submitted_work_done
work_done_callback(self) == [self EXCEPT !.done = TRUE]

(***************************************************************************)
(* State.                                                                  *)
(***************************************************************************)
VARIABLES
    compiler,        \* an SdfCompiler driven call by call
    lastCall,        \* the method of the latest call on compiler, its delegate shape
    mailbox,         \* messages sent to the render thread and not yet handled
    sent,            \* number of messages sent so far
    alive,           \* FALSE once a handler of the render thread has panicked
    shader_cache,    \* RenderThread.shader_cache: hash -> device module
    modulesCreated,  \* calls of device.create_shader_module made by the cache
    shapes,          \* RenderThread.shapes: the compiled shapes, oldest first
    filled,          \* per shape, the result of fill_arguments in the latest RequestTile
    lastHandled,     \* the message the render thread handled last
    deviceHealthy,   \* FALSE once the wgpu device rejects the modules it is given
    tileFutures,     \* the futures returned by the RequestTile handler, oldest first
    answered,        \* ids of the messages whose result went back to the sender
    active_tile_requests, \* OutOfBoundsLayer.active_tile_requests: tile key -> TileEntry
    SHAPE,           \* the OnceLock of OutOfBoundsLayer::render: "Unset" or "Set"
    layer,           \* where the thread calling OutOfBoundsLayer::render stands
    layerSent,       \* every message the layer has sent, oldest first
    tile,            \* the tile a quadtree walk from Tile::WORLD has reached
    tileBounds,      \* into_bounds of tile, once computed
    calendarQuery,   \* the latest runs_on call: calendar, date, result
    delayQuery,      \* the latest with_delay call: event, delay, build, result
    traversal,       \* a traverse_quadtree call: its decide, stack, results, decide calls
    viewState,       \* a ViewState: its map, the write lock, the get_map_state calls
    assembly         \* an assemble_rings call: the ways given and the rings returned

compilerVars == <<compiler, lastCall>>
renderVars ==
    <<mailbox, sent, alive, shader_cache, modulesCreated, shapes, filled, lastHandled,
      deviceHealthy, tileFutures, answered>>
layerVars == <<active_tile_requests, SHAPE, layer, layerSent>>
tileVars == <<tile, tileBounds>>
transitVars == <<calendarQuery, delayQuery>>
hostVars == <<traversal, viewState, assembly>>
vars == <<compilerVars, renderVars, layerVars, tileVars, transitVars, hostVars>>

Produced == 0 .. (compiler.next_register - 1)

RegLists == {<<>>} \cup { <<r>> : r \in Produced } \cup { <<r, s>> : r \in Produced, s \in Produced }

PointLists == {<<>>} \cup { <<p>> : p \in Positions }

OpcodeMethods ==
    {"point", "point_cloud", "great_circle", "geodesic", "geodesic_string", "union",
     "intersection", "subtract", "invert", "dilate", "edge", "boundary", "with_vdg",
     "with_contour_texture"}

Call(name) == [method |-> name, shape |-> NoShape]

Message(type, shape, t, id) == [type |-> type, shape |-> shape, tile |-> t, id |-> id]

NoMessage == Message("None", NoShape, WORLD, 0)

NoQuery == [kind |-> "None"]

Idle == [state |-> "Idle", tile |-> WORLD, request |-> 0]

NoTraversal == [status |-> "None"]

\* no way was handed over yet
NoAssembly == [status |-> "Collecting", ways |-> <<>>, closed_rings |-> <<>>, open_rings |-> <<>>]

\* the tasks that call get_map_state on one ViewState
NumCallers == 3

\* ViewState::new: map is None (0), nobody holds the write lock (0), no tile
\* server was started, and no task has called get_map_state yet
ViewState_new ==
    [map |-> 0, writer |-> 0, servers |-> 0,
     calls |-> [c \in 1 .. NumCallers |-> [pc |-> "NotCalled", result |-> "Pending", arc |-> 0]]]

Room(n) == Len(compiler.instructions) + n <= MaxInstr

Init ==
    /\ compiler = SdfCompiler_new
    /\ lastCall = Call("new")
    /\ mailbox = <<>>
    /\ sent = 0
    /\ alive = TRUE
    /\ shader_cache = ShaderCache_new
    /\ modulesCreated = 0
    /\ shapes = <<>>
    /\ filled = <<>>
    /\ lastHandled = NoMessage
    /\ deviceHealthy = TRUE
    /\ tileFutures = <<>>
    /\ answered = {}
    /\ active_tile_requests = <<>>
    /\ SHAPE = "Unset"
    /\ layer = Idle
    /\ layerSent = <<>>
    /\ tile = WORLD
    /\ tileBounds = NoBounds
    /\ calendarQuery = NoQuery
    /\ traversal = NoTraversal
    /\ viewState = ViewState_new
    /\ assembly = NoAssembly
    /\ delayQuery = NoQuery

CallPoint ==
    /\ Room(1)
    /\ \E p \in Positions : compiler' = point(compiler, p)
    /\ lastCall' = Call("point")
    /\ UNCHANGED <<hostVars, renderVars, layerVars, tileVars, transitVars>>

CallPointCloud ==
    /\ Room(1)
    /\ \E ps \in PointLists : compiler' = point_cloud(compiler, ps)
    /\ lastCall' = Call("point_cloud")
    /\ UNCHANGED <<hostVars, renderVars, layerVars, tileVars, transitVars>>

CallGreatCircle ==
    /\ Room(1)
    /\ \E b \in Bearings :
          compiler' = great_circle(compiler, PositionTable[1], b, PositionTable[2])
    /\ lastCall' = Call("great_circle")
    /\ UNCHANGED <<hostVars, renderVars, layerVars, tileVars, transitVars>>

CallGeodesic ==
    /\ Room(1)
    /\ compiler' = geodesic(compiler, PositionTable[1], PositionTable[2])
    /\ lastCall' = Call("geodesic")
    /\ UNCHANGED <<hostVars, renderVars, layerVars, tileVars, transitVars>>

CallGeodesicString ==
    /\ Room(1)
    /\ compiler' = geodesic_string(compiler, <<PositionTable[1], PositionTable[2]>>)
    /\ lastCall' = Call("geodesic_string")
    /\ UNCHANGED <<hostVars, renderVars, layerVars, tileVars, transitVars>>

CallUnion ==
    /\ Room(1)
    /\ \E rs \in RegLists : compiler' = union(compiler, rs)
    /\ lastCall' = Call("union")
    /\ UNCHANGED <<hostVars, renderVars, layerVars, tileVars, transitVars>>

CallIntersection ==
    /\ Room(1)
    /\ \E l \in Produced, r \in Produced : compiler' = intersection(compiler, l, r)
    /\ lastCall' = Call("intersection")
    /\ UNCHANGED <<hostVars, renderVars, layerVars, tileVars, transitVars>>

CallSubtract ==
    /\ Room(1)
    /\ \E l \in Produced, r \in Produced : compiler' = subtract(compiler, l, r)
    /\ lastCall' = Call("subtract")
    /\ UNCHANGED <<hostVars, renderVars, layerVars, tileVars, transitVars>>

CallInvert ==
    /\ Room(1)
    /\ \E i \in Produced : compiler' = invert(compiler, i)
    /\ lastCall' = Call("invert")
    /\ UNCHANGED <<hostVars, renderVars, layerVars, tileVars, transitVars>>

CallDilate ==
    /\ Room(1)
    /\ \E i \in Produced, a \in Radii : compiler' = dilate(compiler, i, a)
    /\ lastCall' = Call("dilate")
    /\ UNCHANGED <<hostVars, renderVars, layerVars, tileVars, transitVars>>

CallEdge ==
    /\ Room(1)
    /\ \E i \in Produced : compiler' = edge(compiler, i)
    /\ lastCall' = Call("edge")
    /\ UNCHANGED <<hostVars, renderVars, layerVars, tileVars, transitVars>>

CallBoundary ==
    /\ Room(1)
    /\ \E i \in Produced, o \in Produced, res \in BoundaryOverlapResolution :
          compiler' = boundary(compiler, i, o, res)
    /\ lastCall' = Call("boundary")
    /\ UNCHANGED <<hostVars, renderVars, layerVars, tileVars, transitVars>>

CallWithVdg ==
    /\ Room(1)
    /\ compiler' = with_vdg(compiler, 1)
    /\ lastCall' = Call("with_vdg")
    /\ UNCHANGED <<hostVars, renderVars, layerVars, tileVars, transitVars>>

CallWithContourTexture ==
    /\ Room(1)
    /\ \E z \in Radii : compiler' = with_contour_texture(compiler, 1, z)
    /\ lastCall' = Call("with_contour_texture")
    /\ UNCHANGED <<hostVars, renderVars, layerVars, tileVars, transitVars>>

CallWithCircle ==
    /\ Room(2)
    /\ \E p \in Positions, r \in Radii :
          LET shape == Shape("Circle", <<p>>, r, "None")
          IN  /\ compiler' = with(shape, compiler)
              /\ lastCall' = [method |-> "with", shape |-> shape]
    /\ UNCHANGED <<hostVars, renderVars, layerVars, tileVars, transitVars>>

CallWithRadar ==
    /\ \E p \in Positions, r \in Radii, ans \in {"Hit", "Miss"} :
          LET shape == Shape("Radar", <<p>>, r, ans)
          IN  /\ Room(IF ans = "Hit" THEN 2 ELSE 3)
              /\ compiler' = with(shape, compiler)
              /\ lastCall' = [method |-> "with", shape |-> shape]
    /\ UNCHANGED <<hostVars, renderVars, layerVars, tileVars, transitVars>>

NextCompiler ==
    \/ CallPoint
    \/ CallPointCloud
    \/ CallGreatCircle
    \/ CallGeodesic
    \/ CallGeodesicString
    \/ CallUnion
    \/ CallIntersection
    \/ CallSubtract
    \/ CallInvert
    \/ CallDilate
    \/ CallEdge
    \/ CallBoundary
    \/ CallWithVdg
    \/ CallWithContourTexture
    \/ CallWithCircle
    \/ CallWithRadar

SpecCompiler == Init /\ [][NextCompiler]_vars

(***************************************************************************)
(* Properties of the instruction builder, checked under SpecCompiler.      *)
(***************************************************************************)

\* C1: in every instruction list built by opcode calls whose register
\* operands were returned by earlier calls on the same compiler, the
\* instruction at position i (counted from 0) has output register i and
\* reads only registers produced at positions below i.
InstructionListIsSSA ==
    \A i \in 1 .. Len(compiler.instructions) :
        LET instruction == compiler.instructions[i]
        IN  /\ instruction.output = i - 1
            /\ \A j \in 1 .. Len(instruction.regs) :
                  instruction.regs[j] >= 0 /\ instruction.regs[j] < i - 1

\* a combinator at position 2 that reads the two registers produced before it
C1_Witness ==
    /\ Len(compiler.instructions) = 3
    /\ compiler.instructions[3].regs = <<1, 0>>

\* C7: a call of an opcode method appends exactly one instruction at the end
\* of the list, leaves the instructions appended before unchanged and returns
\* the output register of the instruction it appended.
OpcodeAppendsOneInstruction ==
    [][lastCall'.method \in OpcodeMethods =>
          LET old == compiler.instructions
              new == compiler'.instructions
          IN  /\ Len(new) = Len(old) + 1
              /\ SubSeq(new, 1, Len(old)) = old
              /\ compiler'.ret = new[Len(new)].output]_vars

\* a dilate call on a compiler that already holds two instructions
C7_Witness ==
    /\ lastCall.method = "dilate"
    /\ Len(compiler.instructions) = 3
    /\ compiler.ret = 2

\* The flat list the calls made by a delegate shape amount to when the
\* compiler's next register is n, and the register the delegate returns.
Inlined(shape, n) ==
    LET circle == << SdfInstruction("Point", n, <<>>, <<shape.positions[1]>>),
                     SdfInstruction("Dilate", n + 1, <<n>>, << <<shape.param>> >>) >>
    IN  IF shape.kind = "Radar" /\ shape.answer = "Miss"
        THEN [instructions |-> Append(circle, SdfInstruction("Invert", n + 2, <<n + 1>>, <<>>)),
              ret |-> n + 2]
        ELSE [instructions |-> circle, ret |-> n + 1]

\* C8: with(shape) appends the delegate's instructions to the same list, in
\* call order and after everything appended before, and returns the register
\* the delegate returned: Circle gives Point, Dilate; RadarQuestionShape with
\* answer Miss gives Point r, Dilate of r, Invert of the Dilate, and returns
\* the Invert's register.
WithFlattensDelegate ==
    [][lastCall'.method = "with" =>
          LET flat == Inlined(lastCall'.shape, compiler.next_register)
          IN  /\ compiler'.instructions = compiler.instructions \o flat.instructions
              /\ compiler'.ret = flat.ret]_vars

\* RadarQuestionShape with answer Miss built into a fresh compiler: r0, r1, r2
C8_Witness ==
    /\ lastCall.method = "with"
    /\ lastCall.shape.kind = "Radar"
    /\ lastCall.shape.answer = "Miss"
    /\ Len(compiler.instructions) = 3
    /\ compiler.instructions[3].op = "Invert"
    /\ compiler.instructions[3].regs = <<1>>
    /\ compiler.ret = 2

(***************************************************************************)
(* The render thread.  Callers send messages through the actor's address;  *)
(* the actor handles one message at a time with exclusive access to its    *)
(* fields.  A panic in a handler ends the thread.                          *)
(***************************************************************************)
\* Point-only shapes: n calls of point, the first at position p and the others
\* at the first listed position, returning the first or the last register.
PointPositions(n, p) == [i \in 1 .. n |-> IF i = 1 THEN p ELSE PositionTable[1]]

ShortPointShapes ==
    UNION { { Shape("Points", PointPositions(n, p), t, "None") : p \in Positions, t \in {0, n - 1} }
            : n \in 1 .. MaxPoints }

LongPointShapes ==
    { Shape("Points", PointPositions(n, PositionTable[2]), t, "None") :
        n \in U8Range .. (U8Range + LongExtra), t \in {0, U8Range - 1} }

\* A shape whose build_into returns a register of another compiler: one call
\* of point on the given compiler, and the second register of the other one.
StrayResultShapes == { Shape("Points", <<PositionTable[1]>>, 1, "None") }

RequestShapes ==
    ShortPointShapes
        \cup StrayResultShapes
        \cup { Shape("Circle", <<PositionTable[1]>>, r, "None") : r \in Radii }
        \cup { Shape("Radar", <<PositionTable[1]>>, r, a) : r \in Radii, a \in {"Hit", "Miss"} }

SendStartShapeCompilation ==
    /\ alive
    /\ sent < MaxRequests
    /\ \E shape \in RequestShapes :
          mailbox' = Append(mailbox, Message("StartShapeCompilation", shape, WORLD, sent + 1))
    /\ sent' = sent + 1
    /\ UNCHANGED <<hostVars, compilerVars, layerVars, tileVars, transitVars, alive, shader_cache,
                 modulesCreated, shapes, filled, lastHandled, deviceHealthy, tileFutures, answered>>

SendLongShapeCompilation ==
    /\ alive
    /\ sent < MaxRequests
    /\ \E shape \in LongPointShapes :
          mailbox' = Append(mailbox, Message("StartShapeCompilation", shape, WORLD, sent + 1))
    /\ sent' = sent + 1
    /\ UNCHANGED <<hostVars, compilerVars, layerVars, tileVars, transitVars, alive, shader_cache,
                 modulesCreated, shapes, filled, lastHandled, deviceHealthy, tileFutures, answered>>

SendRequestTile ==
    /\ alive
    /\ sent < MaxRequests
    /\ mailbox' = Append(mailbox, Message("RequestTile", NoShape, WORLD, sent + 1))
    /\ sent' = sent + 1
    /\ UNCHANGED <<hostVars, compilerVars, layerVars, tileVars, transitVars, alive, shader_cache,
                 modulesCreated, shapes, filled, lastHandled, deviceHealthy, tileFutures, answered>>

HandleStartShapeCompilation ==
    /\ alive
    /\ mailbox # <<>>
    /\ Head(mailbox).type = "StartShapeCompilation"
    /\ \E key \in Keys :
          \E r \in {CompiledShape_compile(shader_cache, modulesCreated, Head(mailbox).shape, key,
                                          Len(mailbox) - 1, deviceHealthy)} :
              /\ shader_cache' = r.cache
              /\ modulesCreated' = r.created
              /\ alive' = ~r.panic
              /\ shapes' = IF r.panic THEN shapes ELSE Append(shapes, r.shape)
              /\ answered' = IF r.panic THEN answered ELSE answered \cup {Head(mailbox).id}
    /\ mailbox' = Tail(mailbox)
    /\ lastHandled' = Head(mailbox)
    /\ UNCHANGED <<hostVars, compilerVars, layerVars, tileVars, transitVars, sent, filled, deviceHealthy,
                   tileFutures>>

HandleRequestTile ==
    /\ alive
    /\ mailbox # <<>>
    /\ Head(mailbox).type = "RequestTile"
    /\ \E results \in {[n \in 1 .. Len(shapes) |-> fill_arguments(shapes[n], <<>>)]} :
           /\ filled' = results
           /\ alive' = (\A n \in 1 .. Len(shapes) : ~results[n].panic)
           /\ tileFutures' = IF \E n \in 1 .. Len(shapes) : results[n].panic
                             THEN tileFutures
                             ELSE Append(tileFutures, Impl(Head(mailbox).id, Head(mailbox).tile))
    /\ mailbox' = Tail(mailbox)
    /\ lastHandled' = Head(mailbox)
    /\ UNCHANGED <<hostVars, compilerVars, layerVars, tileVars, transitVars, sent, shader_cache,
                   modulesCreated, shapes, deviceHealthy, answered>>

Next ==
    \/ SendStartShapeCompilation
    \/ SendRequestTile
    \/ HandleStartShapeCompilation
    \/ HandleRequestTile

Spec == Init /\ [][Next]_vars

\* The same render thread serving shapes of U8Range instructions and more.
NextLong ==
    \/ SendLongShapeCompilation
    \/ SendRequestTile
    \/ HandleStartShapeCompilation
    \/ HandleRequestTile

SpecLong == Init /\ [][NextLong]_vars

(***************************************************************************)
(* Properties of compilation, the cache and argument binding, checked      *)
(* under Spec and, for long instruction lists, under SpecLong.             *)
(***************************************************************************)
Structure(instructions) ==
    [i \in 1 .. Len(instructions) |->
        <<Discriminant(instructions[i].op), instructions[i].output>>]

SameStructure(a, b) == Structure(a.instructions) = Structure(b.instructions)

\* C2: two compilations of instruction lists with the same opcode sequence
\* and the same output registers, against the same cache, compute the same
\* hash and the second receives the module installed by the first, so that
\* the cache holds one entry for the shape and no second module is created.
SameContentReusesProgram ==
    \A i \in 1 .. Len(shapes), j \in 1 .. Len(shapes) :
        SameStructure(shapes[i], shapes[j]) =>
            /\ shapes[i].shader.hash = shapes[j].shader.hash
            /\ shapes[i].shader.module = shapes[j].shader.module

\* C3: the hash depends on the opcode discriminants and output registers
\* only: lists that agree on these and differ in payload constants get the
\* same hash and share one cached program.
PayloadDoesNotChangeHash ==
    \A i \in 1 .. Len(shapes), j \in 1 .. Len(shapes) :
        (/\ SameStructure(shapes[i], shapes[j])
         /\ shapes[i].instructions # shapes[j].instructions) =>
            /\ shapes[i].shader.hash = shapes[j].shader.hash
            /\ shapes[i].shader.module.id = shapes[j].shader.module.id

\* C4: every CompiledShape returned by compile has a bound argument for each
\* slot of its required-slot list, and no fill_arguments call on it fails for
\* a missing slot.
RequiredSlotsAreBound ==
    /\ \A n \in 1 .. Len(shapes) :
          \A k \in 1 .. Len(shapes[n].shader.required_slots) :
              shapes[n].shader.required_slots[k] \in DOMAIN shapes[n].arguments
    /\ \A n \in 1 .. Len(filled) : ~filled[n].panic

\* a tile request has filled the arguments of a compiled two-point shape
C4_Witness ==
    /\ Len(shapes) >= 1
    /\ Len(shapes[1].shader.required_slots) = 2
    /\ Len(filled) >= 1
    /\ Len(filled[1].buffer) = 16

Handled == Len(shapes') = Len(shapes) + 1

\* C5: get_or_create on a cache that holds an entry for the hash returns the
\* stored entry, creates no device module and leaves the cache unchanged; on
\* a cache without an entry it creates one module, stores it under the hash,
\* returns it and leaves every other entry unchanged.
GetOrCreateContract ==
    [][Handled =>
          LET shader == shapes'[Len(shapes')].shader
              hash == shader.hash
          IN  IF hash \in DOMAIN shader_cache
              THEN /\ shader.module = shader_cache[hash]
                   /\ shader_cache' = shader_cache
                   /\ modulesCreated' = modulesCreated
              ELSE /\ modulesCreated' = modulesCreated + 1
                   /\ shader.module.id = modulesCreated'
                   /\ shader.module.source = shapes'[Len(shapes')].generated
                   /\ DOMAIN shader_cache' = DOMAIN shader_cache \cup {hash}
                   /\ shader_cache'[hash] = shader.module
                   /\ \A h \in DOMAIN shader_cache : shader_cache'[h] = shader_cache[h]]_vars

\* the second compilation hit the entry installed by the first
C5_Witness ==
    /\ Len(shapes) = 2
    /\ modulesCreated = 1
    /\ shapes[2].shader.hash \in DOMAIN shader_cache
    /\ shapes[2].shader.module = shapes[1].shader.module

\* C6: whatever the order in which callers' compile requests reach the render
\* thread, at most one module is ever installed per hash, an installed entry
\* is never replaced or evicted, and each request receives a completely
\* built module, the one the cache holds for its hash.
CacheInstallIsAtomic ==
    [][/\ \A h \in DOMAIN shader_cache :
             h \in DOMAIN shader_cache' /\ shader_cache'[h] = shader_cache[h]
       /\ modulesCreated' - modulesCreated
             = Cardinality(DOMAIN shader_cache' \ DOMAIN shader_cache)
       /\ Handled =>
             LET shader == shapes'[Len(shapes')].shader
             IN  /\ shader.hash \in DOMAIN shader_cache'
                 /\ shader.module = shader_cache'[shader.hash]
                 /\ shader.module.source.result \in
                        0 .. (Len(shader.module.source.locals) - 1)]_vars

\* two requests with the same hash, the first handled while the second was
\* waiting in the mailbox; the second received the first one's module
C6_Witness ==
    /\ Len(shapes) = 2
    /\ shapes[1].behind >= 1
    /\ shapes[1].shader.hash = shapes[2].shader.hash
    /\ shapes[1].shader.module = shapes[2].shader.module
    /\ Cardinality(DOMAIN shader_cache) = 1

\* The instruction list and result register a request's shape builds.
BuiltBy(message) == build_into(message.shape, SdfCompiler_new)

HasNoEmissionRule(built) ==
    \E i \in 1 .. Len(built.instructions) : built.instructions[i].op # "Point"

ResultNotProduced(built) ==
    \A i \in 1 .. Len(built.instructions) : built.instructions[i].output # built.ret

\* C11: a compilation whose instruction list contains an opcode without an
\* emission rule, or whose result register no instruction of the list
\* produced, aborts: no shape is returned, the cache keeps the entries it had
\* and no device module is created.
UnsupportedCompilationAborts ==
    [][(/\ Len(mailbox') < Len(mailbox)
        /\ lastHandled'.type = "StartShapeCompilation")
          => \A built \in {BuiltBy(lastHandled')} :
                HasNoEmissionRule(built) \/ ResultNotProduced(built)
                   => /\ ~alive'
                      /\ shapes' = shapes
                      /\ shader_cache' = shader_cache
                      /\ modulesCreated' = modulesCreated]_vars

\* a request whose shape returned a register its list never produced was
\* handled after a point-only shape had installed a module: the thread is
\* gone and the cache still holds that one module
C11_Witness ==
    /\ lastHandled.type = "StartShapeCompilation"
    /\ ~HasNoEmissionRule(BuiltBy(lastHandled))
    /\ ResultNotProduced(BuiltBy(lastHandled))
    /\ ~alive
    /\ Len(shapes) = 1
    /\ modulesCreated = 1

\* the eight bytes a coordinate argument is specified to encode to
Encoding(position) ==
    to_le_bytes(ScaleRound(position[1], position[2]))
        \o to_le_bytes(ScaleRound(position[3], position[4]))

\* C9: fill_arguments encodes the required slots in ascending ShaderSlot
\* order, each at the current end of the buffer: the buffer is the
\* concatenation of the slot encodings in that order and the returned offsets
\* are ascending.
FillFollowsSlotOrder ==
    \A n \in 1 .. Len(filled) :
        LET required == shapes[n].shader.required_slots
            out == filled[n]
        IN  /\ \A k \in 1 .. (Len(required) - 1) : ShaderSlot_lt(required[k], required[k + 1])
            /\ Len(out.buffer) = 8 * Len(required)
            /\ \A k \in 1 .. Len(required) :
                  SubSeq(out.buffer, 8 * (k - 1) + 1, 8 * k)
                      = Encoding(shapes[n].arguments[required[k]])
            /\ \A k \in 1 .. (Len(out.shader_arguments) - 1) :
                  out.shader_arguments[k].offset <= out.shader_arguments[k + 1].offset

\* C10: a coordinate argument appends two little-endian 32-bit integers, and
\* each ShaderArgument returned for it lies inside the buffer and starts where
\* one of the two integers was written.
CoordinateArgumentsInsideBuffer ==
    \A n \in 1 .. Len(filled) :
        LET required == shapes[n].shader.required_slots
            out == filled[n]
        IN  /\ Len(out.shader_arguments) = 2 * Len(required)
            /\ \A k \in 1 .. Len(required) :
                  LET start == 8 * (k - 1)
                  IN  /\ SubSeq(out.buffer, start + 1, start + 8)
                            = Encoding(shapes[n].arguments[required[k]])
                      /\ \A a \in {2 * k - 1, 2 * k} :
                            /\ out.shader_arguments[a].offset \in {start, start + 4}
                            /\ out.shader_arguments[a].offset + out.shader_arguments[a].length
                                  <= Len(out.buffer)

(***************************************************************************)
(* The wgpu device and queue of the render thread, and the futures of the  *)
(* tile requests.  The actor's context polls a spawned future after the    *)
(* handler returned it and whenever its waker is woken; the interval timer *)
(* set up in started() polls the device, which runs the callbacks of the   *)
(* submissions the GPU has finished.                                       *)
(***************************************************************************)
PollTileFuture ==
    /\ alive
    /\ \E i \in 1 .. Len(tileFutures) :
          /\ tileFutures[i].output # "Ready"
          /\ \E polled \in {Impl_poll(tileFutures[i])} :
                /\ tileFutures' = [tileFutures EXCEPT ![i] = polled]
                /\ answered' = IF polled.output = "Ready"
                               THEN answered \cup {polled.id} ELSE answered
    /\ UNCHANGED <<hostVars, compilerVars, layerVars, tileVars, transitVars, mailbox, sent, alive,
                   shader_cache, modulesCreated, shapes, filled, lastHandled, deviceHealthy>>

GpuFinish ==
    /\ \E i \in 1 .. Len(tileFutures) :
          /\ tileFutures[i].work = "Running"
          /\ tileFutures' = [tileFutures EXCEPT ![i].work = "Finished"]
    /\ UNCHANGED <<hostVars, compilerVars, layerVars, tileVars, transitVars, mailbox, sent, alive,
                   shader_cache, modulesCreated, shapes, filled, lastHandled, deviceHealthy,
                   answered>>

DevicePoll ==
    /\ alive
    /\ tileFutures' =
          [i \in 1 .. Len(tileFutures) |->
              IF tileFutures[i].work = "Finished"
              THEN work_done_callback([tileFutures[i] EXCEPT !.work = "Notified"])
              ELSE tileFutures[i]]
    /\ UNCHANGED <<hostVars, compilerVars, layerVars, tileVars, transitVars, mailbox, sent, alive,
                   shader_cache, modulesCreated, shapes, filled, lastHandled, deviceHealthy,
                   answered>>

DeviceFails ==
    /\ deviceHealthy
    /\ deviceHealthy' = FALSE
    /\ UNCHANGED <<hostVars, compilerVars, layerVars, tileVars, transitVars, mailbox, sent, alive,
                   shader_cache, modulesCreated, shapes, filled, lastHandled, tileFutures,
                   answered>>

\* Requests for point-only shapes around one position: what the device is
\* asked to create depends on the shape's structure only.
DeviceShapes ==
    { Shape("Points", PointPositions(n, PositionTable[1]), 0, "None") : n \in 1 .. MaxPoints }

SendDeviceShapeCompilation ==
    /\ alive
    /\ sent < MaxRequests
    /\ \E shape \in DeviceShapes :
          mailbox' = Append(mailbox, Message("StartShapeCompilation", shape, WORLD, sent + 1))
    /\ sent' = sent + 1
    /\ UNCHANGED <<hostVars, compilerVars, layerVars, tileVars, transitVars, alive, shader_cache,
                 modulesCreated, shapes, filled, lastHandled, deviceHealthy, tileFutures, answered>>

\* The render thread with a device that may start rejecting modules.
NextDevice ==
    \/ SendDeviceShapeCompilation
    \/ HandleStartShapeCompilation
    \/ DeviceFails

SpecDevice == Init /\ [][NextDevice]_vars

(***************************************************************************)
(* OutOfBoundsLayer::render.  One step is one turn of the loop over the    *)
(* tiles the quadtree traversal returned; a frame is any number of turns.  *)
(* The first turn that finds no entry sends the shape and blocks on the    *)
(* answer before it sends the tile request.                                *)
(***************************************************************************)
Key(t) == <<t.zoom, t.tile_x, t.tile_y>>

LayerTiles ==
    LET all == <<WORLD>> \o children(WORLD)
    IN  { all[i] : i \in 1 .. NumLayerTiles }

\* RenderSession::test
TestShape == Shape("Points", << <<0, 0, 0, 0>> >>, 0, "None")

InProgress(request) == [kind |-> "InProgress", request |-> request]

Loaded(request) == [kind |-> "Loaded", request |-> request]

\* the entry is left as it was
insert_in_progress_dropped(requests, request_params, request) == requests

\* active_tile_requests.insert(request_params, TileEntry::InProgress { request })
insert_in_progress(requests, request_params, request) ==
    Insert(requests, request_params, InProgress(request))

\* thread.send(RequestTile { .. }) and the insert that follows
SendTileRequest(t) ==
    /\ mailbox' = Append(mailbox, Message("RequestTile", NoShape, t, sent + 1))
    /\ sent' = sent + 1
    /\ layerSent' = Append(layerSent, Message("RequestTile", NoShape, t, sent + 1))
    /\ active_tile_requests' = insert_in_progress(active_tile_requests, Key(t), sent + 1)

Aborted == [state |-> "Aborted", tile |-> WORLD, request |-> 0]

RenderTile ==
    /\ layer.state = "Idle"
    /\ Len(layerSent) < MaxLayerSends
    /\ \E t \in LayerTiles :
          IF Key(t) \in DOMAIN active_tile_requests
          THEN LET entry == active_tile_requests[Key(t)]
               IN  /\ IF entry.kind = "InProgress" /\ entry.request \in answered
                      THEN /\ active_tile_requests' =
                                  Insert(active_tile_requests, Key(t), Loaded(entry.request))
                           /\ layer' = layer
                      ELSE IF entry.kind = "InProgress" /\ ~alive
                      THEN /\ layer' = Aborted
                           /\ active_tile_requests' = active_tile_requests
                      ELSE UNCHANGED <<hostVars, active_tile_requests, layer>>
                   /\ UNCHANGED <<hostVars, mailbox, sent, layerSent, SHAPE>>
          ELSE IF SHAPE = "Unset"
          THEN /\ mailbox' = Append(mailbox,
                                    Message("StartShapeCompilation", TestShape, t, sent + 1))
               /\ sent' = sent + 1
               /\ layerSent' = Append(layerSent,
                                      Message("StartShapeCompilation", TestShape, t, sent + 1))
               /\ layer' = [state |-> "Blocked", tile |-> t, request |-> sent + 1]
               /\ UNCHANGED <<hostVars, active_tile_requests, SHAPE>>
          ELSE /\ SendTileRequest(t)
               /\ UNCHANGED <<hostVars, layer, SHAPE>>
    /\ UNCHANGED <<hostVars, compilerVars, tileVars, transitVars, alive, shader_cache, modulesCreated,
                   shapes, filled, lastHandled, deviceHealthy, tileFutures, answered>>

\* block_on returns: the OnceLock is set and the turn goes on with its request
RenderTileResume ==
    /\ layer.state = "Blocked"
    /\ IF layer.request \in answered
       THEN /\ SHAPE' = "Set"
            /\ SendTileRequest(layer.tile)
            /\ layer' = Idle
       ELSE /\ ~alive
            /\ layer' = Aborted
            /\ UNCHANGED <<hostVars, mailbox, sent, layerSent, active_tile_requests, SHAPE>>
    /\ UNCHANGED <<hostVars, compilerVars, tileVars, transitVars, alive, shader_cache, modulesCreated,
                   shapes, filled, lastHandled, deviceHealthy, tileFutures, answered>>

NextLayer ==
    \/ RenderTile
    \/ RenderTileResume
    \/ HandleStartShapeCompilation
    \/ HandleRequestTile
    \/ PollTileFuture
    \/ GpuFinish
    \/ DevicePoll

\* The timer keeps polling the device, the GPU finishes what was submitted
\* and the context polls the futures it was woken for.
SpecLayer ==
    /\ Init
    /\ [][NextLayer]_vars
    /\ WF_vars(PollTileFuture)
    /\ WF_vars(GpuFinish)
    /\ WF_vars(DevicePoll)


(***************************************************************************)
(* Properties of the out-of-bounds layer and of tile requests, checked     *)
(* under SpecLayer; of a failing device, under SpecDevice.                 *)
(***************************************************************************)
SentFor(type, key) ==
    { i \in 1 .. Len(layerSent) : layerSent[i].type = type /\ Key(layerSent[i].tile) = key }

\* C12: over any sequence of render turns, the layer sends at most one
\* RequestTile per tile key and at most one StartShapeCompilation; a key
\* that has an InProgress or Loaded entry has been requested exactly once.
OneRequestPerTileKey ==
    /\ \A t \in LayerTiles : Cardinality(SentFor("RequestTile", Key(t))) <= 1
    /\ \A k \in DOMAIN active_tile_requests : Cardinality(SentFor("RequestTile", k)) = 1
    /\ Cardinality({ i \in 1 .. Len(layerSent) :
                       layerSent[i].type = "StartShapeCompilation" }) <= 1

\* every tile has been requested, one of them is loaded and another still in
\* progress, after the one shape compilation and one request per tile
C12_Witness ==
    /\ DOMAIN active_tile_requests = { Key(t) : t \in LayerTiles }
    /\ \E k \in DOMAIN active_tile_requests : active_tile_requests[k].kind = "Loaded"
    /\ \E k \in DOMAIN active_tile_requests : active_tile_requests[k].kind = "InProgress"
    /\ Len(layerSent) = Cardinality(LayerTiles) + 1

Accepted(id) == \E i \in 1 .. Len(tileFutures) : tileFutures[i].id = id

\* C13: the RequestTile handler returns a future that is still pending, with
\* nothing sent back yet, and every request the handler accepted is answered
\* later on as long as the render thread is running.
AcceptedTileIsAnswered ==
    /\ [][Len(tileFutures') > Len(tileFutures) =>
             /\ tileFutures'[Len(tileFutures')].output = "Pending"
             /\ tileFutures'[Len(tileFutures')].id \notin answered'
             /\ alive']_vars
    /\ \A id \in 1 .. (MaxLayerSends + 1) : Accepted(id) ~> (id \in answered \/ ~alive)

\* the first request was answered after the second had been accepted, and
\* the second is still waiting for the GPU
C13_Witness ==
    /\ Len(tileFutures) >= 2
    /\ tileFutures[1].output = "Ready"
    /\ tileFutures[1].id \in answered
    /\ tileFutures[2].state = "Waiting"
    /\ tileFutures[2].work = "Running"

Sample(around, cm) == [around |-> around, cm |-> cm]

SampleDistances == {0, 400, 500, 600}

Samples == { Sample(PositionTable[1], cm) : cm \in SampleDistances }

PositiveInfinity == I32Max

dist(sample, position) == CASE position = sample.around -> sample.cm

MinOf(values) ==
    IF values = {} THEN PositiveInfinity
    ELSE CHOOSE m \in values : \A n \in values : m <= n

MaxOf(a, b) == IF a >= b THEN a ELSE b

RECURSIVE evaluate(_, _, _)
evaluate(instructions, reg, sample) ==
    LET instruction ==
            instructions[CHOOSE i \in 1 .. Len(instructions) : instructions[i].output = reg]
        op == instruction.op
        Value(n) == evaluate(instructions, instruction.regs[n], sample)
    IN  CASE op = "Point" -> dist(sample, instruction.payload[1])
          [] op = "PointCloud" ->
                MinOf({ dist(sample, instruction.payload[i]) :
                          i \in 1 .. Len(instruction.payload) })
          [] op = "Union" -> MinOf({ Value(n) : n \in 1 .. Len(instruction.regs) })
          [] op = "Intersection" -> MaxOf(Value(1), Value(2))
          [] op = "Subtract" -> MaxOf(Value(1), 0 - Value(2))
          [] op = "Invert" -> 0 - Value(1)
          [] op = "Dilate" -> Value(1) - instruction.payload[1][1]
          [] op = "Edge" -> Abs(Value(1))
          [] op = "Boundary" ->
                IF Value(1) <= 0 /\ Value(2) <= 0 /\ instruction.payload[1][1] # Midpoint
                THEN IF instruction.payload[1][1] = Inside THEN 0 - 1 ELSE 1
                ELSE Value(1) - Value(2)

classify(value) == IF value <= 0 THEN "inside" ELSE "outside"

\* the field of a compiled shape at a sample
field(shape, sample) == evaluate(shape.instructions, shape.target, sample)

(***************************************************************************)
(* The render thread compiling region-algebra shapes: clouds and unions of *)
(* a candidate list that may be empty, circles, and overlap resolutions.   *)
(***************************************************************************)
Candidates == { <<>>, <<PositionTable[1]>> }

AlgebraShapes ==
    { Shape(kind, positions, 0, "None") :
        kind \in {"PointCloud", "Union"}, positions \in Candidates }
        \cup { Shape("Points", <<PositionTable[1]>>, 0, "None") }
        \cup { Shape("Circle", <<PositionTable[1]>>, r, "None") : r \in Radii }
        \cup { Shape("Boundary", <<PositionTable[1]>>, r, policy) :
                 r \in Radii, policy \in {"Inside", "Outside"} }

SendAlgebraShapeCompilation ==
    /\ alive
    /\ sent < MaxRequests
    /\ \E shape \in AlgebraShapes :
          mailbox' = Append(mailbox, Message("StartShapeCompilation", shape, WORLD, sent + 1))
    /\ sent' = sent + 1
    /\ UNCHANGED <<hostVars, compilerVars, layerVars, tileVars, transitVars, alive, shader_cache,
                 modulesCreated, shapes, filled, lastHandled, deviceHealthy, tileFutures, answered>>

NextAlgebra ==
    \/ SendAlgebraShapeCompilation
    \/ HandleStartShapeCompilation

SpecAlgebra == Init /\ [][NextAlgebra]_vars

\* the render thread has just handled a StartShapeCompilation for such a shape
JustCompiled(kinds) ==
    /\ Len(mailbox') < Len(mailbox)
    /\ lastHandled'.type = "StartShapeCompilation"
    /\ lastHandled'.shape.kind \in kinds

\* the shape the handler has just registered
Registered == shapes'[Len(shapes')]

CompiledAndRegistered == alive' /\ Len(shapes') = Len(shapes) + 1

\* C15: a shape that is point_cloud or union of an empty candidate list
\* compiles: its list is the one instruction that produced the returned
\* register, and the field of the compiled shape is outside at every sample.
EmptyCandidatesCompileToOutside ==
    [][(JustCompiled({"PointCloud", "Union"}) /\ lastHandled'.shape.positions = <<>>)
          => /\ CompiledAndRegistered
             /\ Len(Registered.instructions) = 1
             /\ Registered.instructions[1].output = Registered.target
             /\ \A sample \in Samples :
                   classify(field(Registered, sample)) = "outside"]_vars

\* C16: a compiled Circle of radius r around P has the field dist(x, P) - r:
\* inside at the samples nearer to P than r, outside at the farther ones.
CircleFieldIsDistanceMinusRadius ==
    [][JustCompiled({"Circle"})
          => /\ CompiledAndRegistered
             /\ \A sample \in Samples :
                   LET P == lastHandled'.shape.positions[1]
                       r == lastHandled'.shape.param
                   IN  /\ field(Registered, sample) = dist(sample, P) - r
                       /\ dist(sample, P) < r => classify(field(Registered, sample)) = "inside"
                       /\ dist(sample, P) > r => classify(field(Registered, sample)) = "outside"]_vars

\* C17: a compiled boundary of two regions classifies a sample that lies in
\* both of them as inside under policy Inside and as outside under policy
\* Outside.
OverlapPolicyDecidesSharedSample ==
    [][JustCompiled({"Boundary"})
          => /\ CompiledAndRegistered
             /\ \A sample \in Samples :
                   LET list == Registered.instructions
                       last == list[Len(list)]
                   IN  (/\ evaluate(list, last.regs[1], sample) <= 0
                        /\ evaluate(list, last.regs[2], sample) <= 0)
                          => classify(field(Registered, sample)) =
                                (IF lastHandled'.shape.answer = "Inside"
                                 THEN "inside" ELSE "outside")]_vars

(***************************************************************************)
(* The quadtree walk: from Tile::WORLD a caller descends into one of the   *)
(* four children of the tile it holds, and converts the tile it holds into *)
(* its TileBounds.                                                         *)
(***************************************************************************)
Descend ==
    /\ tile.zoom < MaxTileZoom
    /\ \E n \in 1 .. 4 : tile' = children(tile)[n]
    /\ tileBounds' = NoBounds
    /\ UNCHANGED <<hostVars, compilerVars, renderVars, layerVars, transitVars>>

ComputeBounds ==
    /\ tileBounds = NoBounds
    /\ tileBounds' = into_bounds(tile)
    /\ UNCHANGED <<hostVars, compilerVars, renderVars, layerVars, transitVars, tile>>

NextTiles ==
    \/ Descend
    \/ ComputeBounds

SpecTiles == Init /\ [][NextTiles]_vars

\* 180 degrees in fixed point, divided by the number of tiles per row: half
\* of the longitude span of a tile of that zoom
HalfSpan(zoom) == (180 * COORD_SCALE) \div (2 ^ zoom)

\* C18: the longitude fields into_bounds returns for a tile reached from
\* WORLD are the tile's minimum longitude and longitude span times 10^7,
\* and their sum is the tile's maximum longitude times 10^7.  (The span is
\* compared by halves: a whole turn times 10^7 is beyond 32 bits.)
LongitudeFieldsAreExact ==
    tileBounds # NoBounds =>
        /\ tileBounds.min_lon_deg = HalfSpan(tile.zoom) * (2 * tile.x0 - 2 ^ tile.zoom)
        /\ tileBounds.lon_span_deg % 2 = 0
        /\ tileBounds.lon_span_deg \div 2 = HalfSpan(tile.zoom) * (tile.x1 - tile.x0)
        /\ tileBounds.min_lon_deg + tileBounds.lon_span_deg
              = HalfSpan(tile.zoom) * (2 * tile.x1 - 2 ^ tile.zoom)

(***************************************************************************)
(* Callers of ServiceCalendar::runs_on: a calendar built with              *)
(* WeekdayFlags::from_bools and sets of exception dates, asked about one   *)
(* date after another.  The latest query and its answer are recorded.      *)
(***************************************************************************)
Dates == 0 .. (NumDays - 1)

ExceptionDates == {0, 3, NumDays - 1}

WeekPatterns ==
    { <<TRUE, TRUE, TRUE, TRUE, TRUE, FALSE, FALSE>>,
      <<FALSE, FALSE, FALSE, FALSE, FALSE, TRUE, TRUE>>,
      <<TRUE, FALSE, FALSE, FALSE, FALSE, FALSE, FALSE>>,
      <<FALSE, FALSE, FALSE, FALSE, FALSE, FALSE, FALSE>> }

\* the feed loader builds the calendar once; it is not changed afterwards
LoadCalendar ==
    /\ calendarQuery = NoQuery
    /\ \E start_date \in {0, 2}, end_date \in {NumDays - 3, NumDays - 1},
          bools \in WeekPatterns,
          added_dates \in SUBSET ExceptionDates, removed_dates \in SUBSET ExceptionDates :
          calendarQuery' = [kind |-> "loaded",
                            calendar |-> ServiceCalendar(start_date, end_date, from_bools(bools),
                                                         added_dates, removed_dates),
                            bools |-> bools, date |-> 0, result |-> FALSE]
    /\ UNCHANGED <<hostVars, compilerVars, renderVars, layerVars, tileVars, delayQuery>>

RunsOn ==
    /\ calendarQuery # NoQuery
    /\ \E date \in Dates :
          calendarQuery' = [calendarQuery EXCEPT !.kind = "runs_on", !.date = date,
                                                 !.result = runs_on(calendarQuery.calendar, date)]
    /\ UNCHANGED <<hostVars, compilerVars, renderVars, layerVars, tileVars, delayQuery>>

NextCalendar ==
    \/ LoadCalendar
    \/ RunsOn

SpecCalendar == Init /\ [][NextCalendar]_vars

\* C19: runs_on is true for a date in added_dates, whatever else holds;
\* otherwise false for a date in removed_dates; otherwise true exactly when
\* the date is within start_date .. end_date and the calendar was built with
\* the flag of the date's weekday set.
RunsOnFollowsExceptionsThenSchedule ==
    calendarQuery.kind = "runs_on" =>
        LET q == calendarQuery
            in_range == q.calendar.start_date <= q.date /\ q.date <= q.calendar.end_date
            day_flag == q.bools[(q.date % 7) + 1]
        IN  /\ q.date \in q.calendar.added_dates => q.result
            /\ (q.date \notin q.calendar.added_dates /\ q.date \in q.calendar.removed_dates)
                  => ~q.result
            /\ (q.date \notin q.calendar.added_dates /\ q.date \notin q.calendar.removed_dates)
                  => (q.result <=> (in_range /\ day_flag))

\* a date that is added, removed and after end_date, on a weekday without
\* flag: the service runs
C19_Witness ==
    /\ calendarQuery.kind = "runs_on"
    /\ calendarQuery.date \in calendarQuery.calendar.added_dates
    /\ calendarQuery.date \in calendarQuery.calendar.removed_dates
    /\ calendarQuery.date > calendarQuery.calendar.end_date
    /\ ~calendarQuery.bools[(calendarQuery.date % 7) + 1]
    /\ calendarQuery.result

(***************************************************************************)
(* Callers of StopEvent::with_delay: an event with arrival <= departure    *)
(* and a delay, in a build with or without overflow checks.                *)
(***************************************************************************)
EventTimes == {0, 1000, 1020, I32Max, I32Min}

Delays == {I32Min, 0 - 2000, 0 - 1100, 0 - 1, 0, 1, 300, I32Max}

WithDelay ==
    /\ \E arrival \in EventTimes, departure \in EventTimes, delay_seconds \in Delays,
          overflow_checks \in BOOLEAN :
          /\ ~u32_lt(departure, arrival)
          /\ \E event \in {StopEvent("station_1", arrival, departure, 1)} :
                delayQuery' = [kind |-> "with_delay", event |-> event,
                               delay_seconds |-> delay_seconds,
                               overflow_checks |-> overflow_checks,
                               result |-> with_delay(event, delay_seconds, overflow_checks)]
    /\ UNCHANGED <<hostVars, compilerVars, renderVars, layerVars, tileVars, calendarQuery>>

NextDelay == WithDelay

SpecDelay == Init /\ [][NextDelay]_vars

\* max(0, v + d) for the u32 v held as h and the i32 d, as the held u32,
\* computed without leaving 32 bits; the sum is assumed to be at most u32::MAX
ShiftedClamped(h, d) ==
    IF h >= 0
    THEN IF d > 0 /\ h > I32Max - d THEN (h + I32Min) + (d + I32Min) ELSE max0(h + d)
    ELSE IF d >= 0 \/ h >= I32Min - d THEN h + d
         ELSE ((h + I32Max) + 1) + ((d + I32Max) + 1)

\* C20: for an event with arrival <= departure, with_delay returns Ok with
\* arrival = max(0, arrival + delay), departure = max(0, departure + delay)
\* and the other fields as they were; it does not return Err, since the
\* shifted departure is not before the shifted arrival.
DelayShiftsAndClamps ==
    delayQuery.kind = "with_delay" =>
        LET q == delayQuery
        IN  /\ q.result.kind = "Ok"
            /\ q.result.value =
                  StopEvent(q.event.station_id,
                            ShiftedClamped(q.event.arrival, q.delay_seconds),
                            ShiftedClamped(q.event.departure, q.delay_seconds),
                            q.event.stop_sequence)

(***************************************************************************)
(* The required-slot list of a compiled shape.                             *)
(***************************************************************************)
\* C24: the required-slot list of every compiled shape, whatever the length
\* of its instruction list, is strictly ascending in ShaderSlot order (so it
\* names no slot twice), and the instruction_index of each slot is the list
\* position of the instruction the slot belongs to.  Every instruction of a
\* compiled list is a Point with one slot, so the k-th slot belongs to the
\* instruction at position k - 1.
RequiredSlotsAscendByPosition ==
    \A n \in 1 .. Len(shapes) :
        LET required == shapes[n].shader.required_slots
        IN  /\ Len(required) = Len(shapes[n].instructions)
            /\ \A k \in 1 .. (Len(required) - 1) : ShaderSlot_lt(required[k], required[k + 1])
            /\ \A k \in 1 .. Len(required) : required[k][1] = k - 1

\* C22: the module a compiled shape carries, fresh or taken from the cache,
\* is the routine its own instruction list and result register generate, and
\* compilations with equal structural hashes generate identical routines.
CacheHitReturnsOwnRoutine ==
    /\ \A n \in 1 .. Len(shapes) : shapes[n].shader.module.source = shapes[n].generated
    /\ \A i \in 1 .. Len(shapes), j \in 1 .. Len(shapes) :
          shapes[i].shader.hash = shapes[j].shader.hash
              => shapes[i].generated = shapes[j].generated

\* C26: the future of a tile request submits its commands once, on its first
\* poll, which returns Pending; it returns Ready only from a later poll that
\* finds the flag set by the work-done callback, and it gives its return
\* value away at most once.
TileFutureSubmitsOnceReturnsOnce ==
    [][\A i \in 1 .. Len(tileFutures) :
          LET before == tileFutures[i]
              after == tileFutures'[i]
          IN  /\ (before.state = "ToSubmit") <=> (before.submits = 0)
              /\ after.submits <= 1
              /\ (before.state = "ToSubmit" /\ after # before)
                    => /\ after.state = "Waiting"
                       /\ after.submits = 1
                       /\ after.output = "Pending"
              /\ (before.state = "Waiting") => (after.submits = before.submits)
              /\ (before.output # "Ready" /\ after.output = "Ready")
                    => /\ before.state = "Waiting"
                       /\ before.done
                       /\ before.work = "Notified"
                       /\ before.return_value
                       /\ ~after.return_value
              /\ ~before.return_value => after = before]_vars

\* a future has returned its buffer: one submission, the callback has run
\* and the return value is gone
C26_Witness ==
    \E i \in 1 .. Len(tileFutures) :
        /\ tileFutures[i].output = "Ready"
        /\ tileFutures[i].submits = 1
        /\ tileFutures[i].work = "Notified"
        /\ ~tileFutures[i].return_value

(***************************************************************************)
(* layers::oob: the tile traversal of the out-of-bounds layer.             *)
(*                                                                         *)
(* A matrix is held by its four rows of integer entries; a tile corner of  *)
(* zoom z is the vector (X, Y, 0, 2^z) of numerators over 2^z, so every    *)
(* product below is 2^z times the f64 value and has its sign.              *)
(***************************************************************************)
MAX_ZOOM == 20
TILE_TEXTURE_SIZE == 256

\* the deepest zoom whose tiles the model still takes from the stack
MaxVisitedZoom == 21
\* the zoom from which the closures of TablePolicies stop subdividing
TraverseDepth == 2

Enter == "Enter"
Drop == "Drop"
Return == "Return"
TileAction == {Enter, Drop, Return}

\* Plane::new divides by length; with length > 0 the sign of every field
\* and of every distance is kept, with length = 0 every distance is NaN
Plane_new(a, b, c, d) == [a |-> a, b |-> b, c |-> c, d |-> d, length2 |-> a * a + b * b + c * c]

PlaneOf(plus, minus, sign) ==
    Plane_new(plus[1] + sign * minus[1], plus[2] + sign * minus[2],
              plus[3] + sign * minus[3], plus[4] + sign * minus[4])

Frustum_from_matrix(m) ==
    << PlaneOf(m.row4, m.row1, 1), PlaneOf(m.row4, m.row1, -1),
       PlaneOf(m.row4, m.row2, 1), PlaneOf(m.row4, m.row2, -1),
       PlaneOf(m.row4, m.row3, 1), PlaneOf(m.row4, m.row3, -1) >>

\* the x and y of the corner; min_z = max_z = 0
get_positive_vertex(t, plane) ==
    << IF plane.a >= 0 THEN t.x1 ELSE t.x0, IF plane.b >= 0 THEN t.y1 ELSE t.y0 >>

\* distance_to_point(..) < 0.0, which a NaN distance never is
distance_is_negative(plane, p, one) ==
    /\ plane.length2 > 0
    /\ plane.a * p[1] + plane.b * p[2] + plane.d * one < 0

intersects_aabb(frustum, t) ==
    \A k \in 1 .. Len(frustum) :
        ~distance_is_negative(frustum[k], get_positive_vertex(t, frustum[k]), 2 ^ t.zoom)

mul_vec4(m, x, y, one) ==
    [x |-> m.row1[1] * x + m.row1[2] * y + m.row1[4] * one,
     y |-> m.row2[1] * x + m.row2[2] * y + m.row2[4] * one,
     w |-> m.row4[1] * x + m.row4[2] * y + m.row4[4] * one]

\* screen_distance(p1, p2, width, height) > TILE_TEXTURE_SIZE for the screen
\* points ((v.x / v.w) / 2 + 0.5, (v.y / v.w) / 2 + 0.5) of two corners in
\* front of the camera, with both sides multiplied by 2 * v1.w * v2.w and
\* squared; the viewport sides are multiples of TILE_TEXTURE_SIZE
screen_distance_exceeds(v1, v2, viewport_width, viewport_height) ==
    LET dx == (v2.x * v1.w - v1.x * v2.w) * (viewport_width \div TILE_TEXTURE_SIZE)
        dy == (v2.y * v1.w - v1.y * v2.w) * (viewport_height \div TILE_TEXTURE_SIZE)
        bound == 2 * v1.w * v2.w
    IN  dx * dx + dy * dy > bound * bound

\* the closure OutOfBoundsLayer::render hands to traverse_quadtree
render_decide(view, t) ==
    IF ~intersects_aabb(Frustum_from_matrix(view.world_matrix), t) THEN Drop
    ELSE LET one == 2 ^ t.zoom
             corners == << mul_vec4(view.world_matrix, t.x0, t.y1, one),
                           mul_vec4(view.world_matrix, t.x1, t.y1, one),
                           mul_vec4(view.world_matrix, t.x1, t.y0, one),
                           mul_vec4(view.world_matrix, t.x0, t.y0, one) >>
             all_in_front == \A k \in 1 .. 4 : corners[k].w > 0
         IN  IF ~all_in_front THEN Enter
             ELSE LET Exceeds(i, j) == screen_distance_exceeds(corners[i], corners[j],
                                                               view.width, view.height)
                      max_horizontal_exceeds == Exceeds(1, 2) \/ Exceeds(3, 4)
                      max_vertical_exceeds == Exceeds(2, 3) \/ Exceeds(4, 1)
                  IN  IF (max_horizontal_exceeds \/ max_vertical_exceeds) /\ t.zoom < MAX_ZOOM
                      THEN Enter
                      ELSE Return

\* a camera over the whole map looking straight down: w = 1 everywhere
TopDown ==
    [row1 |-> <<2, 0, 0, -1>>, row2 |-> <<0, 2, 0, -1>>,
     row3 |-> <<0, 0, 1, 0>>, row4 |-> <<0, 0, 0, 1>>]

\* a camera on the line x = 0 of the map looking along x: w = x
AlongGround ==
    [row1 |-> <<0, 1, 0, 0>>, row2 |-> <<0, 0, 1, 0>>,
     row3 |-> <<0, 0, 1, 0>>, row4 |-> <<1, 0, 0, 0>>]

Views ==
    { [kind |-> "render", world_matrix |-> m, width |-> 2 * TILE_TEXTURE_SIZE, height |-> h]
        : m \in {TopDown, AlongGround}, h \in {2 * TILE_TEXTURE_SIZE, 4 * TILE_TEXTURE_SIZE} }

\* closures that answer by the zoom of a tile and by its place in its parent
TablePolicies ==
    { [kind |-> "table", root |-> r, quads |-> q, leaf |-> l]
        : r \in TileAction, q \in [1 .. 4 -> TileAction], l \in {Drop, Return} }

table_decide(p, t) ==
    IF t.zoom = 0 THEN p.root
    ELSE IF t.zoom < TraverseDepth THEN p.quads[2 * (t.tile_y % 2) + (t.tile_x % 2) + 1]
    ELSE p.leaf

decide(d, t) == IF d.kind = "table" THEN table_decide(d, t) ELSE render_decide(d, t)

Reversed(s) == [k \in 1 .. Len(s) |-> s[Len(s) + 1 - k]]

\* let mut results = Vec::new(); let mut stack = vec![root];
StartTraversal ==
    /\ traversal = NoTraversal
    /\ \E d \in TablePolicies \cup Views :
          traversal' = [status |-> "Running", decide |-> d, stack |-> <<WORLD>>,
                        results |-> <<>>, calls |-> <<>>]
    /\ UNCHANGED <<compilerVars, renderVars, layerVars, tileVars, transitVars, viewState, assembly>>

\* one turn of `while let Some(tile) = stack.pop()`
TraverseStep ==
    /\ traversal.status = "Running"
    /\ traversal.stack # <<>>
    /\ LET t == traversal.stack[Len(traversal.stack)]
           rest == SubSeq(traversal.stack, 1, Len(traversal.stack) - 1)
       IN  /\ t.zoom <= MaxVisitedZoom
           /\ \E action \in {decide(traversal.decide, t)} :
                 traversal' =
                     [traversal EXCEPT
                        !.calls = Append(@, [tile |-> t, action |-> action]),
                        !.results = IF action = Drop THEN @ ELSE Append(@, t),
                        !.stack = IF action = Enter THEN rest \o Reversed(children(t))
                                  ELSE rest]
    /\ UNCHANGED <<compilerVars, renderVars, layerVars, tileVars, transitVars, viewState, assembly>>

\* the stack is empty: the function returns results
ReturnTraversal ==
    /\ traversal.status = "Running"
    /\ traversal.stack = <<>>
    /\ traversal' = [traversal EXCEPT !.status = "Returned"]
    /\ UNCHANGED <<compilerVars, renderVars, layerVars, tileVars, transitVars, viewState, assembly>>

NextTraverse == StartTraversal \/ TraverseStep \/ ReturnTraversal

SpecTraverse == Init /\ [][NextTraverse]_vars

\* the tiles answered Return at or below t whose ancestors from t down were
\* all answered Enter, depth first with children in children() order
RECURSIVE ReturnedBelow(_, _)
ReturnedBelow(d, t) ==
    LET action == decide(d, t)
        kids == children(t)
    IN  IF action = Return THEN <<t>>
        ELSE IF action = Drop THEN <<>>
        ELSE ReturnedBelow(d, kids[1]) \o ReturnedBelow(d, kids[2])
                \o ReturnedBelow(d, kids[3]) \o ReturnedBelow(d, kids[4])

\* C27: the result of traverse_quadtree(root, decide) is exactly the tiles
\* answered Return whose ancestors were all answered Enter, in depth-first
\* order with children in children() order.
ResultIsTheReturnedTiles ==
    (traversal.status = "Returned" /\ traversal.decide.kind = "table")
        => traversal.results = ReturnedBelow(traversal.decide, WORLD)

\* C25: the traversal of the out-of-bounds layer subdivides no tile at
\* MAX_ZOOM and puts no tile of a zoom above MAX_ZOOM in its result, for every
\* projection matrix.
NoTileBeyondMaxZoom ==
    (traversal.status # "None" /\ traversal.decide.kind = "render")
        => /\ \A k \in 1 .. Len(traversal.calls) :
                 traversal.calls[k].action = Enter => traversal.calls[k].tile.zoom < MAX_ZOOM
           /\ \A k \in 1 .. Len(traversal.results) : traversal.results[k].zoom <= MAX_ZOOM

(***************************************************************************)
(* state::view::ViewState::get_map_state.  A call holds the read lock only *)
(* while it looks at map, then waits for the write lock; the lock admits   *)
(* a reader or a writer when no task holds the write lock (a read guard    *)
(* lives within one step).                                                 *)
(***************************************************************************)
\* if let Some(ref map) = *(self.map.read().await) { return Ok(Arc::clone(map)); }
ReadMap(c) ==
    /\ viewState.calls[c].pc = "NotCalled"
    /\ viewState.writer = 0
    /\ viewState' =
          [viewState EXCEPT
             !.calls[c] = IF viewState.map # 0
                          THEN [pc |-> "Returned", result |-> "Ok", arc |-> viewState.map]
                          ELSE [@ EXCEPT !.pc = "WaitsForWrite"]]
    /\ UNCHANGED <<compilerVars, renderVars, layerVars, tileVars, transitVars, traversal, assembly>>

\* let mut guard = self.map.write().await;
LockWrite(c) ==
    /\ viewState.calls[c].pc = "WaitsForWrite"
    /\ viewState.writer = 0
    /\ viewState' = [viewState EXCEPT !.writer = c, !.calls[c].pc = "HoldsWrite"]
    /\ UNCHANGED <<compilerVars, renderVars, layerVars, tileVars, transitVars, traversal, assembly>>

\* MapState::new(..).await with the tile server it starts, *guard = Some(..)
\* and the return; an error of TileServer::start or of a file read leaves
\* through `?` and drops the guard
CreateMap(c) ==
    /\ viewState.calls[c].pc = "HoldsWrite"
    /\ \E started \in BOOLEAN :
          viewState' =
              IF started
              THEN [viewState EXCEPT
                      !.servers = @ + 1,
                      !.map = viewState.servers + 1,
                      !.writer = 0,
                      !.calls[c] = [pc |-> "Returned", result |-> "Ok",
                                    arc |-> viewState.servers + 1]]
              ELSE [viewState EXCEPT
                      !.writer = 0,
                      !.calls[c] = [pc |-> "Returned", result |-> "Err", arc |-> 0]]
    /\ UNCHANGED <<compilerVars, renderVars, layerVars, tileVars, transitVars, traversal, assembly>>

NextView == \E c \in 1 .. NumCallers : ReadMap(c) \/ LockWrite(c) \/ CreateMap(c)

SpecView == Init /\ [][NextView]_vars

\* C23: over the concurrent get_map_state calls on one ViewState,
\* MapState::new completes successfully at most once (one tile server is
\* started) and all successful callers hold the same Arc<MapState>.
MapStateIsCreatedOnce ==
    /\ viewState.servers <= 1
    /\ \A c \in 1 .. NumCallers, e \in 1 .. NumCallers :
          (viewState.calls[c].result = "Ok" /\ viewState.calls[e].result = "Ok")
              => viewState.calls[c].arc = viewState.calls[e].arc

(***************************************************************************)
(* osm-landmass assembly::assemble_rings.  A coordinate is a pair of       *)
(* integers that count steps of 5e-8 degrees, half the step of coord_key,  *)
(* so two coordinates can differ and still have one key.                   *)
(***************************************************************************)
\* the ways one assemble_rings call is given at most
MaxWays == 3

\* (v * 10_000_000.0).round() as i64 of v = n * 5e-8, n >= 0: n / 2 rounded
\* half away from zero
round_key(n) == (n + 1) \div 2

coord_key(coord) == <<round_key(coord[1]), round_key(coord[2])>>

\* the ways of the test geometry: a triangle with corners (0,0), (4,0),
\* (4,4), where (3,0) has the key of the corner (4,0), and a segment apart
\* from it; every way in both directions
WayCoords ==
    LET forward == { << <<0, 0>>, <<4, 0>> >>, << <<4, 0>>, <<4, 4>> >>,
                     << <<3, 0>>, <<4, 4>> >>, << <<4, 4>>, <<0, 0>> >>,
                     << <<8, 8>>, <<12, 8>> >>,
                     << <<0, 0>>, <<4, 0>>, <<4, 4>> >>,
                     << <<0, 0>>, <<4, 0>>, <<4, 4>>, <<0, 0>> >> }
    IN  forward \cup { Reversed(w) : w \in forward }

first_key(way) == coord_key(way[1])
last_key(way) == coord_key(way[Len(way)])

\* the first index in index[key] of a way that is not used and not empty,
\* or 0; index is start_index (atStart) or end_index
next_candidate(ways, used, key, atStart) ==
    LET candidates == { idx \in 1 .. Len(ways) :
                          /\ ways[idx] # <<>>
                          /\ ~used[idx]
                          /\ key = (IF atStart THEN first_key(ways[idx]) ELSE last_key(ways[idx])) }
    IN  IF candidates = {} THEN 0
        ELSE CHOOSE idx \in candidates : \A other \in candidates : idx <= other

\* the way the loop appends next: [idx, reversed], idx = 0 when none connects
find_next_forward_only(ways, used, current_end) ==
    [idx |-> next_candidate(ways, used, current_end, TRUE), reversed |-> FALSE]

find_next(ways, used, current_end) ==
    LET starts == next_candidate(ways, used, current_end, TRUE)
    IN  IF starts # 0 THEN [idx |-> starts, reversed |-> FALSE]
        ELSE [idx |-> next_candidate(ways, used, current_end, FALSE), reversed |-> TRUE]

\* the loop that extends one ring from its end
RECURSIVE extend_ring(_, _, _, _)
extend_ring(ways, used, ring_coords, ring_start) ==
    LET current_end == coord_key(ring_coords[Len(ring_coords)])
    IN  IF Len(ring_coords) >= 4 /\ current_end = ring_start
        THEN [used |-> used, ring |-> ring_coords, closed |-> TRUE]
        ELSE LET next == find_next(ways, used, current_end)
             IN  IF next.idx = 0
                 THEN [used |-> used, ring |-> ring_coords, closed |-> FALSE]
                 ELSE extend_ring(ways, [used EXCEPT ![next.idx] = TRUE],
                                  ring_coords \o Tail(IF next.reversed
                                                      THEN Reversed(ways[next.idx])
                                                      ELSE ways[next.idx]),
                                  ring_start)

\* for seed_idx in 0..ways.len()
RECURSIVE assemble_from(_, _, _)
assemble_from(ways, seed_idx, st) ==
    IF seed_idx > Len(ways) THEN st
    ELSE IF st.used[seed_idx] \/ ways[seed_idx] = <<>>
    THEN assemble_from(ways, seed_idx + 1, st)
    ELSE LET r == extend_ring(ways, [st.used EXCEPT ![seed_idx] = TRUE],
                              ways[seed_idx], first_key(ways[seed_idx]))
         IN  assemble_from(ways, seed_idx + 1,
                           [used |-> r.used,
                            closed_rings |-> IF r.closed THEN Append(st.closed_rings, r.ring)
                                             ELSE st.closed_rings,
                            open_rings |-> IF r.closed THEN st.open_rings
                                           ELSE Append(st.open_rings, r.ring)])

assemble_rings(ways) ==
    assemble_from(ways, 1, [used |-> [idx \in 1 .. Len(ways) |-> FALSE],
                            closed_rings |-> <<>>, open_rings |-> <<>>])

\* the caller puts one more way in the vector it will hand over
PushWay ==
    /\ assembly.status = "Collecting"
    /\ Len(assembly.ways) < MaxWays
    /\ \E coords \in WayCoords :
          /\ \A idx \in 1 .. Len(assembly.ways) : assembly.ways[idx] # coords
          /\ assembly' = [assembly EXCEPT !.ways = Append(@, coords)]
    /\ UNCHANGED <<compilerVars, renderVars, layerVars, tileVars, transitVars, traversal, viewState>>

AssembleRings ==
    /\ assembly.status = "Collecting"
    /\ \E result \in {assemble_rings(assembly.ways)} :
          assembly' = [assembly EXCEPT !.status = "Returned",
                                       !.closed_rings = result.closed_rings,
                                       !.open_rings = result.open_rings]
    /\ UNCHANGED <<compilerVars, renderVars, layerVars, tileVars, transitVars, traversal, viewState>>

NextAssembly == PushWay \/ AssembleRings

SpecAssembly == Init /\ [][NextAssembly]_vars

EndKeys(way) == {first_key(way), last_key(way)}

\* the ways of the input that share no endpoint with any other way
IsolatedWays(ways) ==
    { i \in 1 .. Len(ways) :
        \A j \in 1 .. Len(ways) : j # i => EndKeys(ways[i]) \cap EndKeys(ways[j]) = {} }

RECURSIVE Reach(_, _, _)
Reach(ways, S, R) ==
    LET more == R \cup { j \in S : \E i \in R : EndKeys(ways[i]) \cap EndKeys(ways[j]) # {} }
    IN  IF more = R THEN R ELSE Reach(ways, S, more)

RECURSIVE SumLen(_, _)
SumLen(ways, S) ==
    IF S = {} THEN 0
    ELSE LET i == CHOOSE i \in S : TRUE IN Len(ways[i]) + SumLen(ways, S \ {i})

RingLen(ways, S) == SumLen(ways, S) - Cardinality(S) + 1

\* the ways S are one cycle of at least 4 coordinates: every way has two
\* endpoints, each shared by exactly two ways of S, and S is connected
OneCycle(ways, S) ==
    /\ S # {}
    /\ \A i \in S : first_key(ways[i]) # last_key(ways[i])
    /\ \A i \in S : \A key \in EndKeys(ways[i]) :
          Cardinality({ j \in S : key \in EndKeys(ways[j]) }) = 2
    /\ Reach(ways, S, {CHOOSE i \in S : TRUE}) = S
    /\ RingLen(ways, S) >= 4

KeysOf(coords) == [k \in 1 .. Len(coords) |-> coord_key(coords[k])]

\* the keys of the way, in one of its directions, lie in a row in the ring
RingHolds(ring, way) ==
    \E at \in 0 .. (Len(ring) - Len(way)) :
        \/ SubSeq(KeysOf(ring), at + 1, at + Len(way)) = KeysOf(way)
        \/ SubSeq(KeysOf(ring), at + 1, at + Len(way)) = KeysOf(Reversed(way))

IsOneOf(rings, coords) == \E k \in 1 .. Len(rings) : rings[k] = coords

\* the ways outside S are isolated and S is one cycle: one closed ring of
\* the length of the cycle holds every way of S and no open ring holds one
CycleComesBackClosed ==
    LET ways == assembly.ways
        S == (1 .. Len(ways)) \ IsolatedWays(ways)
    IN  (assembly.status = "Returned" /\ OneCycle(ways, S))
            => /\ \E k \in 1 .. Len(assembly.closed_rings) :
                     /\ Len(assembly.closed_rings[k]) = RingLen(ways, S)
                     /\ \A i \in S : RingHolds(assembly.closed_rings[k], ways[i])
               /\ Len(assembly.closed_rings) + Len(assembly.open_rings)
                     = 1 + Cardinality(IsolatedWays(ways))

SelfClosed(way) == Len(way) >= 4 /\ first_key(way) = last_key(way)

\* C21 as stated: a cycle of ways comes back as one closed ring and no open
\* ring, and every way that shares no endpoint with another way comes back
\* as its own open ring.
IsolatedWaysComeBackOpen ==
    /\ CycleComesBackClosed
    /\ assembly.status = "Returned"
          => \A i \in IsolatedWays(assembly.ways) :
                IsOneOf(assembly.open_rings, assembly.ways[i])

\* C21: a cycle of ways with a ring of at least 4 coordinates comes back as
\* one closed ring that holds every way of it, whatever the order and the
\* directions of the ways; a way that shares no endpoint with another way
\* comes back as its own ring, closed when the way has at least 4
\* coordinates and ends at the key it starts at, open otherwise.
IsolatedWaysComeBackAsTheyAre ==
    /\ CycleComesBackClosed
    /\ assembly.status = "Returned"
          => \A i \in IsolatedWays(assembly.ways) :
                IF SelfClosed(assembly.ways[i])
                THEN IsOneOf(assembly.closed_rings, assembly.ways[i])
                ELSE IsOneOf(assembly.open_rings, assembly.ways[i])

\* a cycle of three ways, one of them against the direction of the ring and
\* one starting at a coordinate that only shares its key, came back closed
C21_Witness ==
    /\ assembly.status = "Returned"
    /\ Len(assembly.ways) = 3
    /\ OneCycle(assembly.ways, 1 .. 3)
    /\ \E i \in 1 .. 3 : assembly.ways[i][1] = <<3, 0>>
    /\ first_key(assembly.ways[1]) = first_key(assembly.ways[2])
    /\ Len(assembly.closed_rings) = 1
    /\ assembly.open_rings = <<>>

\* C28: on return no endpoint of an open ring has the coord_key of an
\* endpoint of another open ring.
OpenRingsCannotBeJoined ==
    assembly.status = "Returned"
        => \A i \in 1 .. Len(assembly.open_rings), j \in 1 .. Len(assembly.open_rings) :
              i # j => EndKeys(assembly.open_rings[i]) \cap EndKeys(assembly.open_rings[j]) = {}

====
